---- MODULE Spec2Model ----
(***************************************************************************)
(* PwnyHub UI (src/app/src/App.jsx): the setup gate, the setup wizard and  *)
(* the actions view (filters, sort, selection) of the App component, as a  *)
(* state machine.  React state hooks are the variables, memos are derived  *)
(* operators; every event handler, effect and continuation of an async     *)
(* function (the code between two awaits) is one action.  A function keeps *)
(* the values of the render it was created in: an async function started   *)
(* by a click carries those values (its closure) through all its awaits.   *)
(***************************************************************************)
EXTENDS Integers, Sequences, FiniteSets, TLC

(***************************************************************************)
(* Bounds of the model.                                                    *)
(***************************************************************************)
\* longest text typed into a wizard field (SpecWizard)
MaxTextLen == 2
\* most async functions (auto-load, load, import, demo, save) in flight
MaxTasks == 2
\* most project-list requests of the projects effect in flight
MaxProjReqs == 1
\* most records in an action list of GET /actions
MaxActions == 3
\* most filters in force at once (SpecFilter)
MaxFilters == 2
\* most health checks in flight, cancelled ones included
MaxPolls == 2
\* last reading of the clock
MaxClock == 2
\* the rows filteredActions keeps (line 649)
ViewCap == 800

(***************************************************************************)
(* Text.  A text is a sequence of characters; NL is the line break.        *)
(***************************************************************************)
NL == "\n"
CR == "\r"
SP == " "

Whitespace == {SP, NL, CR}

RECURSIVE TrimLeft(_)
\* String.prototype.trim, leading part
TrimLeft(s) ==
    IF s /= <<>> /\ Head(s) \in Whitespace THEN TrimLeft(Tail(s)) ELSE s

RECURSIVE TrimRight(_)
\* String.prototype.trim, trailing part
TrimRight(s) ==
    IF s /= <<>> /\ s[Len(s)] \in Whitespace
    THEN TrimRight(SubSeq(s, 1, Len(s) - 1))
    ELSE s

\* String.prototype.trim
Trim(s) == TrimRight(TrimLeft(s))

RECURSIVE SplitFrom(_, _)
\* text.split(/\r?\n/g): cur is the line read so far
SplitFrom(s, cur) ==
    IF s = <<>> THEN <<cur>>
    ELSE IF Head(s) = NL
         THEN LET line == IF cur /= <<>> /\ cur[Len(cur)] = CR
                          THEN SubSeq(cur, 1, Len(cur) - 1)
                          ELSE cur
              IN  <<line>> \o SplitFrom(Tail(s), <<>>)
         ELSE SplitFrom(Tail(s), Append(cur, Head(s)))

SplitLines(s) == SplitFrom(s, <<>>)

RECURSIVE MapTrim(_)
MapTrim(ls) ==
    IF ls = <<>> THEN <<>> ELSE <<Trim(Head(ls))>> \o MapTrim(Tail(ls))

RECURSIVE FilterNonEmpty(_)
\* .filter(Boolean) on a list of strings: the empty string is dropped
FilterNonEmpty(ls) ==
    IF ls = <<>> THEN <<>>
    ELSE IF Head(ls) = <<>> THEN FilterNonEmpty(Tail(ls))
         ELSE <<Head(ls)>> \o FilterNonEmpty(Tail(ls))

\* parseLinesToList(text): the non-blank lines, trimmed
parseLinesToList(text) == FilterNonEmpty(MapTrim(SplitLines(text)))

RECURSIVE JoinLines(_)
\* list.join("\n")
JoinLines(ls) ==
    IF ls = <<>> THEN <<>>
    ELSE IF Len(ls) = 1 THEN Head(ls)
         ELSE Head(ls) \o <<NL>> \o JoinLines(Tail(ls))

\* listToLines(list): entries trimmed, blank ones dropped, joined by line breaks
listToLines(list) == JoinLines(FilterNonEmpty(MapTrim(list)))

(***************************************************************************)
(* Numbers.  Number(text) of JavaScript on the decimal integers: the text  *)
(* is trimmed, the empty text is 0, an optional sign and digits are their  *)
(* value, anything else is NaN.                                            *)
(***************************************************************************)
\* a JavaScript number: an integer, or NaN
Num(v) == [nan |-> FALSE, val |-> v]
NaN == [nan |-> TRUE, val |-> 0]

Digits == {"0", "1", "2", "3", "4", "5", "6", "7", "8", "9"}

DigitVal(c) ==
    CASE c = "0" -> 0 [] c = "1" -> 1 [] c = "2" -> 2 [] c = "3" -> 3
      [] c = "4" -> 4 [] c = "5" -> 5 [] c = "6" -> 6 [] c = "7" -> 7
      [] c = "8" -> 8 [] c = "9" -> 9

RECURSIVE DigitsValue(_, _)
DigitsValue(s, acc) ==
    IF s = <<>> THEN acc ELSE DigitsValue(Tail(s), 10 * acc + DigitVal(Head(s)))

AllDigits(s) == s /= <<>> /\ \A i \in 1..Len(s) : s[i] \in Digits

\* Number(text) for a string
NumberOfText(text) ==
    LET t == Trim(text) IN
    IF t = <<>> THEN Num(0)
    ELSE IF AllDigits(t) THEN Num(DigitsValue(t, 0))
    ELSE IF Head(t) = "-" /\ AllDigits(Tail(t)) THEN Num(0 - DigitsValue(Tail(t), 0))
    ELSE IF Head(t) = "+" /\ AllDigits(Tail(t)) THEN Num(DigitsValue(Tail(t), 0))
    ELSE NaN

RECURSIVE NatToText(_)
\* String(n) for a natural number
NatToText(n) ==
    LET d == CHOOSE c \in Digits : DigitVal(c) = n % 10 IN
    IF n < 10 THEN <<d>> ELSE Append(NatToText(n \div 10), d)

\* Number(wizQps || 3): the empty text is falsy and gives the default 3
QpsNumber(qpsText) == IF qpsText = <<>> THEN Num(3) ELSE NumberOfText(qpsText)

\* < for <=: zero passes
QpsRejectedBelowZero(qpsNum) == qpsNum.nan \/ qpsNum.val < 0

\* !Number.isFinite(qpsNum) || qpsNum <= 0
QpsRejected(qpsNum) == qpsNum.nan \/ qpsNum.val <= 0

(***************************************************************************)
(* JSON.  A ROE text is a sequence of lexical tokens; the values are the   *)
(* empty object {}, the empty array [], the number 1 and null.             *)
(***************************************************************************)
JsonNull == "null"
JsonObj == "object"
JsonArr == "array"
JsonOne == "number 1"
JsonError == "SyntaxError"

RECURSIVE DropSpaces(_)
DropSpaces(s) ==
    IF s = <<>> THEN <<>>
    ELSE IF Head(s) \in Whitespace THEN DropSpaces(Tail(s))
         ELSE <<Head(s)>> \o DropSpaces(Tail(s))

\* JSON.parse(text): the value, or JsonError when it throws
JsonParse(text) ==
    LET t == DropSpaces(text) IN
    IF t = <<"{", "}">> THEN JsonObj
    ELSE IF t = <<"[", "]">> THEN JsonArr
    ELSE IF t = <<"1">> THEN JsonOne
    ELSE IF t = <<"null">> THEN JsonNull
    ELSE JsonError

\* safeJsonParse(s): null when JSON.parse throws
safeJsonParse(s) == IF JsonParse(s) = JsonError THEN JsonNull ELSE JsonParse(s)

\* safePrettyJson(obj): JSON.stringify(obj ?? {}, null, 2)
safePrettyJson(obj) ==
    IF obj = JsonNull \/ obj = JsonObj THEN <<"{", "}">>
    ELSE IF obj = JsonArr THEN <<"[", "]">>
    ELSE <<"1">>

(***************************************************************************)
(* The engine's answers.  A project config is the `project` object of      *)
(* GET /projects/{id} and of PATCH /projects/{id}.                         *)
(***************************************************************************)
Pids == {"p1", "p2"}
NoProject == ""

HostA == <<"a">>
HostB == <<"b">>

CfgComplete ==
    [setup_complete |-> TRUE, allow |-> <<HostA>>, deny |-> <<>>,
     qps |-> 3, roe |-> JsonObj]
CfgFresh ==
    [setup_complete |-> FALSE, allow |-> <<>>, deny |-> <<>>,
     qps |-> 3, roe |-> JsonObj]
CfgPartial ==
    [setup_complete |-> FALSE, allow |-> <<HostA, HostB>>, deny |-> <<HostB>>,
     qps |-> 12, roe |-> JsonArr]

Configs == {CfgComplete, CfgFresh, CfgPartial}

\* projectCfg = null
NoCfg == [none |-> TRUE]

\* the lists GET /projects may answer with
ProjectLists == {<<>>, <<"p1", "p2">>}

(***************************************************************************)
(* The action list of GET /actions.  An action record holds the fields the *)
(* view reads; its texts are sequences of characters.  A numeric field is  *)
(* <<>> when the engine left it out and <<n>> when it is n; risk_tags is   *)
(* the tag array, <<>> when it is empty or left out (lines 571 and 591     *)
(* treat the two alike).                                                   *)
(***************************************************************************)
NoKey == <<>>

ActX ==
    [key |-> <<"x">>, host |-> <<"a">>, method |-> <<"G">>,
     path_template |-> <<"p">>, top_mime |-> <<"j">>, has_body |-> FALSE,
     count |-> <<5>>, risk_score |-> <<10>>, avg_time_ms |-> <<>>,
     avg_resp_bytes |-> <<>>, risk_tags |-> << <<"t">>, <<"w">> >>]
ActY ==
    [key |-> <<"y">>, host |-> <<"B">>, method |-> <<"P">>,
     path_template |-> <<"q">>, top_mime |-> <<>>, has_body |-> TRUE,
     count |-> <<9>>, risk_score |-> <<80>>, avg_time_ms |-> <<2>>,
     avg_resp_bytes |-> <<7>>, risk_tags |-> <<>>]
ActZ ==
    [key |-> <<"z">>, host |-> <<"a">>, method |-> <<"G">>,
     path_template |-> <<"p">>, top_mime |-> <<"j">>, has_body |-> FALSE,
     count |-> <<5>>, risk_score |-> <<>>, avg_time_ms |-> <<>>,
     avg_resp_bytes |-> <<>>, risk_tags |-> << <<"w">> >>]
ActW ==
    [key |-> <<"w">>, host |-> <<"b">>, method |-> <<"P">>,
     path_template |-> <<"q">>, top_mime |-> <<>>, has_body |-> TRUE,
     count |-> <<>>, risk_score |-> <<>>, avg_time_ms |-> <<1>>,
     avg_resp_bytes |-> <<>>, risk_tags |-> << <<"t">> >>]

ActionPool == {ActX, ActY, ActZ, ActW}

\* the action lists of at most n records of pool, keys unique within a list
ActionListsOf(pool, n) ==
    UNION {{l \in [1..k -> pool] :
               \A i, j \in 1..k : l[i].key = l[j].key => i = j} : k \in 0..n}

ActionLists == ActionListsOf(ActionPool, MaxActions)

\* the keys of a list
KeysOf(list) == {list[i].key : i \in 1..Len(list)}

\* list.some((a) => a.key === k), lines 676 and 700
HasKey(list, k) == \E i \in 1..Len(list) : list[i].key = k

\* list[0]?.key || "", lines 697, 701, 906
FirstKey(list) == IF list = <<>> THEN NoKey ELSE list[1].key

(***************************************************************************)
(* String and number helpers of the view                                   *)
(***************************************************************************)
toLowerCaseChar(c) ==
    CASE c = "A" -> "a" [] c = "B" -> "b" [] c = "G" -> "g" [] c = "J" -> "j"
      [] c = "P" -> "p" [] c = "Q" -> "q" [] c = "T" -> "t" [] c = "W" -> "w"
      [] c = "X" -> "x" [] c = "Y" -> "y" [] c = "Z" -> "z" [] OTHER -> c

toLowerCase(s) == [i \in 1..Len(s) |-> toLowerCaseChar(s[i])]

\* s.includes(sub)
includes(s, sub) ==
    \E i \in 0..(Len(s) - Len(sub)) : SubSeq(s, i + 1, i + Len(sub)) = sub

\* tags.join(" ")
RECURSIVE join(_)
join(tags) ==
    IF tags = <<>> THEN <<>>
    ELSE IF Len(tags) = 1 THEN tags[1]
    ELSE tags[1] \o <<SP>> \o join(Tail(tags))

\* the characters of the model in collation order (blank, then letters)
Collation == <<SP, "a", "b", "g", "j", "p", "q", "t", "w", "x", "y", "z">>

CharRank(c) == CHOOSE i \in 1..Len(Collation) : Collation[i] = c

\* s.localeCompare(t) on lower-case texts: negative, zero or positive
RECURSIVE localeCompare(_, _)
localeCompare(s, t) ==
    IF s = <<>> /\ t = <<>> THEN 0
    ELSE IF s = <<>> THEN -1
    ELSE IF t = <<>> THEN 1
    ELSE IF CharRank(s[1]) < CharRank(t[1]) THEN -1
    ELSE IF CharRank(s[1]) > CharRank(t[1]) THEN 1
    ELSE localeCompare(Tail(s), Tail(t))

\* Number(x || 0), lines 581-582
NumberOrZero(x) == IF x = <<>> THEN 0 ELSE x[1]

\* num and str of filteredActions, lines 599-600
num(x) == IF x = <<>> THEN 0 ELSE x[1]
str(x) == toLowerCase(x)

(***************************************************************************)
(* filteredActions (lines 565-663) as a function of what it depends on:    *)
(* the action list, the filter state f and the sort state.                 *)
(***************************************************************************)
\* hasRisk, lines 373-375
hasRisk(acts) == \E i \in 1..Len(acts) : acts[i].risk_score /= <<>>

\* count descending whether or not an action has a risk score
defaultSortByCount(acts) == [col |-> "count", dir |-> "desc"]

\* defaultSort, lines 518-520
defaultSort(acts) ==
    IF hasRisk(acts) THEN [col |-> "risk", dir |-> "desc"]
    ELSE [col |-> "count", dir |-> "desc"]

\* the filter chain, lines 568-593, for one action
\* tag exclusion as an allow list: an action passes when one tag is shown
tagsPassAllowList(a, f) ==
    \/ f.excludedTags = {}
    \/ a.risk_tags = <<>>
    \/ \E i \in 1..Len(a.risk_tags) : a.risk_tags[i] \notin f.excludedTags

\* lines 569-576
tagsPass(a, f) ==
    \/ f.excludedTags = {}
    \/ \A i \in 1..Len(a.risk_tags) : a.risk_tags[i] \notin f.excludedTags

\* lines 583-593, qq the trimmed lower-case search text (line 566)
searchPass(a, qq) ==
    \/ qq = <<>>
    \/ includes(toLowerCase(a.host), qq)
    \/ includes(toLowerCase(a.path_template), qq)
    \/ includes(toLowerCase(a.method), qq)
    \/ includes(toLowerCase(a.top_mime), qq)
    \/ includes(toLowerCase(a.key), qq)
    \/ includes(toLowerCase(join(a.risk_tags)), qq)

\* the thresholds as upper limits
thresholdsPassAtMost(a, f) ==
    /\ (f.minCount > 0 => NumberOrZero(a.count) <= f.minCount)
    /\ (f.minRisk > 0 => NumberOrZero(a.risk_score) <= f.minRisk)

\* the thresholds exclusive instead of inclusive
thresholdsPassExclusive(a, f) ==
    /\ (f.minCount > 0 => NumberOrZero(a.count) > f.minCount)
    /\ (f.minRisk > 0 => NumberOrZero(a.risk_score) > f.minRisk)

\* lines 581-582
thresholdsPass(a, f) ==
    /\ (f.minCount > 0 => NumberOrZero(a.count) >= f.minCount)
    /\ (f.minRisk > 0 => NumberOrZero(a.risk_score) >= f.minRisk)

passes(a, f) ==
    /\ tagsPass(a, f)
    /\ (f.fHost /= <<>> => a.host = f.fHost)
    /\ (f.fMethod /= <<>> => a.method = f.fMethod)
    /\ (f.fMime /= <<>> => a.top_mime = f.fMime)
    /\ (f.onlyHasBody => a.has_body)
    /\ thresholdsPass(a, f)
    /\ searchPass(a, toLowerCase(Trim(f.qDebounced)))

\* Array.prototype.filter: the elements that pass, in the list's order
RECURSIVE filterList(_, _)
filterList(list, f) ==
    IF list = <<>> THEN <<>>
    ELSE IF passes(Head(list), f) THEN <<Head(list)>> \o filterList(Tail(list), f)
    ELSE filterList(Tail(list), f)

\* the sort columns whose getVal is a number (lines 604-613, 623)
StringCols == {"method", "host", "path", "mime"}

\* getVal, lines 602-625
getVal(a, activeCol) ==
    CASE activeCol = "risk" -> num(a.risk_score)
      [] activeCol = "count" -> num(a.count)
      [] activeCol = "time" -> num(a.avg_time_ms)
      [] activeCol = "bytes" -> num(a.avg_resp_bytes)
      [] activeCol = "body" -> IF a.has_body THEN 1 ELSE 0
      [] activeCol = "method" -> str(a.method)
      [] activeCol = "host" -> str(a.host)
      [] activeCol = "path" -> str(a.path_template)
      [] activeCol = "mime" -> str(a.top_mime)
      [] OTHER -> num(a.count)

\* the tie-break following the primary direction
cmpTieWithDirection(A, B, activeCol, dirMul) ==
    LET d == IF activeCol \in StringCols
             THEN localeCompare(getVal(B, activeCol), getVal(A, activeCol)) * dirMul
             ELSE (getVal(B, activeCol) - getVal(A, activeCol)) * dirMul
        t1 == (num(B.count) - num(A.count)) * dirMul
    IN  IF d /= 0 THEN d
        ELSE IF t1 /= 0 THEN t1
        ELSE (num(B.avg_time_ms) - num(A.avg_time_ms)) * dirMul

\* cmp, lines 627-646
cmp(A, B, activeCol, dirMul) ==
    LET d == IF activeCol \in StringCols
             THEN localeCompare(getVal(B, activeCol), getVal(A, activeCol)) * dirMul
             ELSE (getVal(B, activeCol) - getVal(A, activeCol)) * dirMul
        t1 == num(B.count) - num(A.count)
    IN  IF d /= 0 THEN d
        ELSE IF t1 /= 0 THEN t1
        ELSE num(B.avg_time_ms) - num(A.avg_time_ms)

\* Array.prototype.sort is stable: a goes behind every element that cmp does
\* not put after it
RECURSIVE insertSorted(_, _, _, _)
insertSorted(a, sorted, activeCol, dirMul) ==
    IF sorted = <<>> THEN <<a>>
    ELSE IF cmp(Head(sorted), a, activeCol, dirMul) <= 0
    THEN <<Head(sorted)>> \o insertSorted(a, Tail(sorted), activeCol, dirMul)
    ELSE <<a>> \o sorted

RECURSIVE sort(_, _, _)
sort(list, activeCol, dirMul) ==
    IF list = <<>> THEN <<>>
    ELSE insertSorted(list[Len(list)],
                      sort(SubSeq(list, 1, Len(list) - 1), activeCol, dirMul),
                      activeCol, dirMul)

\* the column and direction in force, lines 595-597
activeSort(acts, sCol, sDir) ==
    IF sCol /= "" THEN [col |-> sCol, dir |-> sDir] ELSE defaultSort(acts)

\* list.slice(0, 800), line 649
slice(list, n) == SubSeq(list, 1, IF Len(list) < n THEN Len(list) ELSE n)

\* the filtered, sorted list before line 649 cuts it
sortedActions(acts, f, sCol, sDir) ==
    LET s == activeSort(acts, sCol, sDir)
    IN  sort(filterList(acts, f), s.col, IF s.dir = "desc" THEN 1 ELSE -1)

\* the cut made before filtering and sorting
filteredActionsCutFirst(acts, f, sCol, sDir, cap) ==
    sortedActions(slice(acts, cap), f, sCol, sDir)

\* filteredActions (lines 565-649) with the 800 of line 649 as cap
filteredActionsCut(acts, f, sCol, sDir, cap) ==
    slice(sortedActions(acts, f, sCol, sDir), cap)

\* filteredActions, lines 565-663
filteredActionsOf(acts, f, sCol, sDir) ==
    filteredActionsCut(acts, f, sCol, sDir, ViewCap)

(***************************************************************************)
(* State: the useState hooks of App, and the requests in flight.           *)
(***************************************************************************)
VARIABLES
    engineOk,                 \* line 203
    projectId,                \* line 208
    busy,                     \* line 215
    busyActions,              \* line 216
    autoLoadOnProjectSelect,  \* line 226
    projectCfg,               \* line 279
    setupComplete,            \* line 280
    wizardOpen,               \* line 281
    wizardErr,                \* line 282
    wizardSaving,             \* line 283
    wizardDirty,              \* line 284
    wizAllowText,             \* line 286
    wizDenyText,              \* line 287
    wizQps,                   \* line 288
    wizRoeText,               \* line 289
    projReqs,                 \* GET /projects in flight (line 835): whether the
                              \* closure's projectId is empty
    cfgReqs,                  \* GET /projects/{id} in flight (line 857) whose effect
                              \* run is not cancelled: the project asked for
    tasks,                    \* async functions suspended at an await
    actions,                  \* line 212
    selectedActionKey,        \* line 213
    fHost,                    \* line 231
    fMethod,                  \* line 232
    fMime,                    \* line 233
    q,                        \* line 234
    qDebounced,               \* line 235
    onlyHasBody,              \* line 238
    minCount,                 \* line 239
    minRisk,                  \* line 240
    excludedTags,             \* line 249, as the set of line 431
    sortCol,                  \* line 272
    sortDir,                  \* line 273
    engineUrl,                \* line 199
    engineErr,                \* line 204
    engineLastOkAt,           \* line 205
    now,                      \* Date.now()
    cfgCancelled,             \* GET /projects/{id} in flight whose effect run is
                              \* cancelled (line 875): the project asked for
    polls,                    \* GET /health in flight (line 807), each with the
                              \* cancelled flag of its effect run (line 803)
    focusMode,                \* line 221
    cols                      \* line 269

wizardFields == <<wizAllowText, wizDenyText, wizQps, wizRoeText>>
wizardVars == <<wizardOpen, wizardErr, wizardSaving, wizardDirty>>
gateVars ==
    <<engineOk, projectId, busy, busyActions,
      autoLoadOnProjectSelect, projectCfg, setupComplete, wizardOpen, wizardErr,
      wizardSaving, wizardDirty, wizAllowText, wizDenyText, wizQps, wizRoeText,
      projReqs, cfgReqs, tasks>>
vars ==
    <<engineOk, projectId, busy, busyActions,
      autoLoadOnProjectSelect, projectCfg, setupComplete, wizardOpen, wizardErr,
      wizardSaving, wizardDirty, wizAllowText, wizDenyText, wizQps, wizRoeText,
      projReqs, cfgReqs, tasks, actions, selectedActionKey, fHost, fMethod,
      fMime, q, qDebounced, onlyHasBody, minCount, minRisk, excludedTags,
      sortCol, sortDir, engineUrl, engineErr, engineLastOkAt, now, polls,
      focusMode, cols, cfgCancelled>>

\* the engine URL and the health state, the clock, the focus flag and the
\* column visibility
shellVars ==
    <<engineUrl, engineErr, engineLastOkAt, now, polls, focusMode, cols, cfgCancelled>>
\* all but the view
otherVars == <<gateVars, shellVars>>

(***************************************************************************)
(* The view: the action list, the selection, the filter and sort state.    *)
(* View is the state as one record, filteredActions the memo of line 565.  *)
(***************************************************************************)
filterVars ==
    <<fHost, fMethod, fMime, q, qDebounced, onlyHasBody, minCount, minRisk,
      excludedTags>>
sortVars == <<sortCol, sortDir>>
viewVars == <<actions, selectedActionKey, filterVars, sortVars>>

View ==
    [actions |-> actions, selectedActionKey |-> selectedActionKey,
     fHost |-> fHost, fMethod |-> fMethod, fMime |-> fMime, q |-> q,
     qDebounced |-> qDebounced, onlyHasBody |-> onlyHasBody,
     minCount |-> minCount, minRisk |-> minRisk,
     excludedTags |-> excludedTags, sortCol |-> sortCol, sortDir |-> sortDir]

filteredActionsIn(v) == filteredActionsOf(v.actions, v, v.sortCol, v.sortDir)

filteredActions == filteredActionsIn(View)

\* the dependencies of the self-heal effect (lines 703-716) that are compared
\* by value; defaultSort is a memo of hasRisk, excludedTagSet a memo of the
\* excludedTags array, which is a new array whenever setExcludedTags runs
HealDeps(v) ==
    <<v.fHost, v.fMethod, v.fMime, v.qDebounced, Len(v.actions), v.sortCol,
      v.sortDir, hasRisk(v.actions), v.onlyHasBody, v.minCount, v.minRisk>>

\* the selection after the self-heal effect ran (lines 694-702)
selfHeal(v) ==
    IF v.actions = <<>> THEN v.selectedActionKey
    ELSE IF v.selectedActionKey = NoKey THEN FirstKey(filteredActionsIn(v))
    ELSE IF ~HasKey(filteredActionsIn(v), v.selectedActionKey)
    THEN FirstKey(filteredActionsIn(v))
    ELSE v.selectedActionKey

(***************************************************************************)
(* The render after a handler set the view state to v, and its effects:    *)
(* the self-heal effect runs when one of its dependencies changed; tagsSet *)
(* says that the handler called setExcludedTags.                           *)
(***************************************************************************)
Render(v, tagsSet) ==
    /\ actions' = v.actions
    /\ selectedActionKey' =
          IF tagsSet \/ HealDeps(v) /= HealDeps(View)
          THEN selfHeal(v) ELSE v.selectedActionKey
    /\ fHost' = v.fHost
    /\ fMethod' = v.fMethod
    /\ fMime' = v.fMime
    /\ q' = v.q
    /\ qDebounced' = v.qDebounced
    /\ onlyHasBody' = v.onlyHasBody
    /\ minCount' = v.minCount
    /\ minRisk' = v.minRisk
    /\ excludedTags' = v.excludedTags
    /\ sortCol' = v.sortCol
    /\ sortDir' = v.sortDir

\* the stored preferences hold no view state: nothing loaded, nothing
\* selected, no filter, the default sort (lines 212-213, 231-273)
\* the columns of the table, all shown (lines 256-268)
ColIds ==
    {"count", "risk", "method", "host", "path", "mime", "statuses", "bytes", "time",
     "body"}
defaultCols == [k \in ColIds |-> TRUE]

\* DEFAULT_ENGINE (line 3)
DEFAULT_ENGINE == "http://127.0.0.1:8787"

\* the engine URL, health state, focus flag and columns with nothing stored
\* (lines 199-205, 221, 269) and no health check sent yet
InitShellDefault ==
    /\ engineUrl = DEFAULT_ENGINE
    /\ engineErr = ""
    /\ engineLastOkAt = 0
    /\ now = 0
    /\ polls = {}
    /\ cfgCancelled = {}
    /\ focusMode = FALSE
    /\ cols = defaultCols

InitViewDefault ==
    /\ actions = <<>>
    /\ selectedActionKey = NoKey
    /\ fHost = <<>>
    /\ fMethod = <<>>
    /\ fMime = <<>>
    /\ q = <<>>
    /\ qDebounced = <<>>
    /\ onlyHasBody = FALSE
    /\ minCount = 0
    /\ minRisk = 0
    /\ excludedTags = {}
    /\ sortCol = ""
    /\ sortDir = "desc"


\* the values wizardErr takes (lines 1094, 1102, 1108, 1117 cut after its
\* first sentence, 869 and 1156 with the message of the failed request)
ErrNone == ""
ErrNoProject == "No project selected."
EmptyScopeAllowlist == "Scope allowlist is required (at least 1 host / domain)."
InvalidQps == "QPS must be a positive number."
InvalidRoeJson == "ROE JSON is invalid."
ErrFetchFailed == "Failed to load project config"
\* `Save failed: <message of the request that failed>`
ErrSaveFailedPatch == "Save failed: PATCH /projects/{id}"
ErrSaveFailedSummary == "Save failed: GET /summary"

(***************************************************************************)
(* The gate state of section 4.3, read off the hooks: LOADING while the    *)
(* config request of the current effect run is in flight.                  *)
(* The answer to a request of a cancelled run changes nothing (lines 858,  *)
(* 866), so cancelling a run (line 875) takes its request out of cfgReqs.  *)
(***************************************************************************)
GateOf(eOk, pid, reqs, sc, cfg) ==
    IF pid = NoProject \/ ~eOk THEN "UNKNOWN"
    ELSE IF reqs /= {} THEN "LOADING"
    ELSE IF sc THEN "COMPLETE"
    ELSE IF cfg = NoCfg THEN "FETCH_FAILED"
    ELSE "INCOMPLETE"

Gate == GateOf(engineOk, projectId, cfgReqs, setupComplete, projectCfg)

(***************************************************************************)
(* A task is an async function suspended at an await: kind is the function *)
(* (auto = the auto-load effect, load = loadActions from its button,       *)
(* import = importHar, demo = createDemoProject, save = wizardSave), pc    *)
(* the request it awaits, pid the project it works for, sc and auto the    *)
(* setupComplete and autoLoadOnProjectSelect of its closure (auto is kept  *)
(* for the functions that read it, demo and save), body the PATCH payload  *)
(* (save, while the PATCH is in flight).                                   *)
(***************************************************************************)
NoBody == [none |-> TRUE]

Task(kind, pc, pid, sc, auto) ==
    [kind |-> kind, pc |-> pc, pid |-> pid, sc |-> sc, auto |-> auto, body |-> NoBody]

\* room for one more async function, and none like it in flight
CanStart(ts, t) == t \notin ts /\ Cardinality(ts) < MaxTasks

\* the wizardSave functions awaiting their PATCH
SavesAtPatch == {t \in tasks : t.kind = "save" /\ t.pc = "patch"}

\* the finally blocks: busy (lines 946, 988), wizardSaving (line 1157)
BusyAfter(t) == IF t.kind \in {"import", "demo"} THEN FALSE ELSE busy
SavingAfter(t) == IF t.kind = "save" THEN FALSE ELSE wizardSaving

(***************************************************************************)
(* The effects that run after a render.  eOk2, pid2, auto2, sc2 are the    *)
(* values the handler has set; cfg2, reqs2, preqs2, ts2 what it leaves of  *)
(* projectCfg, cfgReqs, projReqs and tasks.                                *)
(*  - project config effect (lines 847-878, deps engineOk, projectId):     *)
(*    cancels the request of its last run, then resets the gate or fetches *)
(*  - projects effect (lines 831-844, deps engineOk)                       *)
(*  - auto-load effect (lines 994-1012), run with the render's values; the *)
(*    reset's setSetupComplete(true) gives a render in which it returns at *)
(*    once, for then engineOk is false or projectId empty.  It starts by   *)
(*    emptying the action list and the selection (lines 1003-1004).        *)
(* acts2 and key2 are the action list and the selection the handler has    *)
(* set.                                                                    *)
(***************************************************************************)
RunCoreEffects(eOk2, pid2, auto2, sc2, cfg2, reqs2, preqs2, ts2, acts2, key2) ==
    LET cfgDeps == <<eOk2, pid2>> /= <<engineOk, projectId>>
        autoDeps == <<pid2, auto2, eOk2, sc2>> /=
                    <<projectId, autoLoadOnProjectSelect, engineOk, setupComplete>>
        reset == cfgDeps /\ (~eOk2 \/ pid2 = NoProject)
        fetch == cfgDeps /\ eOk2 /\ pid2 /= NoProject
        fire == autoDeps /\ eOk2 /\ pid2 /= NoProject /\ auto2 /\ sc2
        auto == Task("auto", "summary", pid2, TRUE, FALSE)
    IN  /\ engineOk' = eOk2
        /\ projectId' = pid2
        /\ autoLoadOnProjectSelect' = auto2
        /\ cfgReqs' = IF ~cfgDeps THEN reqs2 ELSE IF fetch THEN {pid2} ELSE {}
        /\ projReqs' = IF eOk2 /\ ~engineOk
                       THEN preqs2 \cup {projectId = NoProject}
                       ELSE preqs2
        /\ Cardinality(projReqs') <= MaxProjReqs
        /\ projectCfg' = IF reset THEN NoCfg ELSE cfg2
        /\ setupComplete' = IF reset THEN TRUE ELSE sc2
        /\ fire => CanStart(ts2, auto)
        /\ tasks' = IF fire THEN ts2 \cup {auto} ELSE ts2
        /\ Render([View EXCEPT !.actions = IF fire THEN <<>> ELSE acts2,
                               !.selectedActionKey = IF fire THEN NoKey ELSE key2],
                  FALSE)

\* the cleanup of the project config effect (lines 874-876) sets the
\* cancelled flag of the run it ends: the requests reqs2 of that run stay in
\* flight, cancelled, when the effect runs again for eOk2 and pid2
cancelledAfter(eOk2, pid2, reqs2) ==
    IF <<eOk2, pid2>> /= <<engineOk, projectId>>
    THEN cfgCancelled \cup reqs2
    ELSE cfgCancelled

\* the effects with the cancelled config requests kept until they are
\* answered
RunEffectsKeeping(eOk2, pid2, auto2, sc2, cfg2, reqs2, preqs2, ts2, acts2, key2) ==
    /\ RunCoreEffects(eOk2, pid2, auto2, sc2, cfg2, reqs2, preqs2, ts2, acts2, key2)
    /\ cfgCancelled' = cancelledAfter(eOk2, pid2, reqs2)
    /\ UNCHANGED <<engineUrl, engineErr, engineLastOkAt, now, polls, focusMode, cols>>

\* the effects after a handler that leaves the engine URL, the health error
\* and time, the focus flag and the columns; the answer to a cancelled
\* config request changes nothing (lines 858, 866), and here the request is
\* forgotten when its run is cancelled
RunEffectsOn(eOk2, pid2, auto2, sc2, cfg2, reqs2, preqs2, ts2, acts2, key2) ==
    /\ RunCoreEffects(eOk2, pid2, auto2, sc2, cfg2, reqs2, preqs2, ts2, acts2, key2)
    /\ UNCHANGED shellVars

\* the effects after a handler that leaves the action list and the selection
RunEffects(eOk2, pid2, auto2, sc2, cfg2, reqs2, preqs2, ts2) ==
    RunEffectsOn(eOk2, pid2, auto2, sc2, cfg2, reqs2, preqs2, ts2,
                 actions, selectedActionKey)

\* a handler that touches none of the dependencies of these three effects
NoGateEffects ==
    UNCHANGED <<engineOk, projectId, autoLoadOnProjectSelect, cfgReqs, projReqs,
                projectCfg, setupComplete, shellVars>>

\* a handler that touches none of them, nor the view
NoEffects == NoGateEffects /\ UNCHANGED viewVars

\* openWizardFromCfg without its force parameter: an open wizard is left alone
openWizardUnlessOpen(p, force) ==
    IF wizardOpen
    THEN UNCHANGED <<wizardFields, wizardOpen, wizardErr, wizardDirty>>
    ELSE /\ wizAllowText' = listToLines(p.allow)
         /\ wizDenyText' = listToLines(p.deny)
         /\ wizQps' = NatToText(p.qps)
         /\ wizRoeText' = safePrettyJson(p.roe)
         /\ wizardErr' = ErrNone
         /\ wizardDirty' = FALSE
         /\ wizardOpen' = TRUE

(***************************************************************************)
(* openWizardFromCfg(cfg, force), lines 292-310, for cfg.project = p       *)
(***************************************************************************)
openWizardFromCfg(p, force) ==
    IF ~force /\ wizardOpen
    THEN UNCHANGED <<wizardFields, wizardOpen, wizardErr, wizardDirty>>
    ELSE /\ wizAllowText' = listToLines(p.allow)
         /\ wizDenyText' = listToLines(p.deny)
         /\ wizQps' = NatToText(p.qps)
         /\ wizRoeText' = safePrettyJson(p.roe)
         /\ wizardErr' = ErrNone
         /\ wizardDirty' = FALSE
         /\ wizardOpen' = TRUE

(***************************************************************************)
(* Init: the state after the first render and its effects.  projectId and  *)
(* autoLoadOnProjectSelect come from the stored preferences: p1 or no      *)
(* project, auto-load on or off.                                           *)
(***************************************************************************)
Init ==
    /\ engineOk = FALSE
    /\ projectId \in {"p1", NoProject}
    /\ busy = FALSE
    /\ busyActions = FALSE
    /\ autoLoadOnProjectSelect \in BOOLEAN
    /\ projectCfg = NoCfg
    /\ setupComplete = TRUE
    /\ wizardOpen = FALSE
    /\ wizardErr = ErrNone
    /\ wizardSaving = FALSE
    /\ wizardDirty = FALSE
    /\ wizAllowText = <<>>
    /\ wizDenyText = <<>>
    /\ wizQps = <<"3">>
    /\ wizRoeText = <<"{", "}">>
    /\ projReqs = {}
    /\ cfgReqs = {}
    /\ tasks = {}
    /\ InitViewDefault
    /\ InitShellDefault

(***************************************************************************)
(* Engine health poll (lines 802-828): the result of a tick.               *)
(***************************************************************************)
HealthResult(ok) ==
    /\ RunEffects(ok, projectId, autoLoadOnProjectSelect, setupComplete,
                  projectCfg, cfgReqs, projReqs, tasks)
    /\ UNCHANGED <<busy, busyActions, wizardVars, wizardFields>>

(***************************************************************************)
(* Answer to the GET /projects of the projects effect (lines 833-842);     *)
(* c says that the projectId of the effect's closure is empty.             *)
(***************************************************************************)
ProjectsResponse(c, ok, list) ==
    /\ c \in projReqs
    /\ LET pid2 == IF ok /\ c /\ list /= <<>> THEN list[1] ELSE projectId
       IN  RunEffects(engineOk, pid2, autoLoadOnProjectSelect, setupComplete,
                      projectCfg, cfgReqs, projReqs \ {c}, tasks)
    /\ UNCHANGED <<busy, busyActions, wizardVars, wizardFields>>

(***************************************************************************)
(* The project <select> (lines 1374-1387).  Its options are the loaded     *)
(* project list, which this state does not hold: p is any project.  The    *)
(* handler empties the action list and the selection.                      *)
(***************************************************************************)
SelectProject(p) ==
    /\ engineOk
    /\ p /= projectId
    /\ RunEffectsOn(engineOk, p, autoLoadOnProjectSelect, setupComplete,
                    projectCfg, cfgReqs, projReqs, tasks, <<>>, NoKey)
    /\ UNCHANGED <<busy, busyActions, wizardVars, wizardFields>>

(***************************************************************************)
(* The Auto-load checkbox (lines 1410-1416)                                *)
(***************************************************************************)
ToggleAutoLoad ==
    /\ setupComplete
    /\ RunEffects(engineOk, projectId, ~autoLoadOnProjectSelect, setupComplete,
                  projectCfg, cfgReqs, projReqs, tasks)
    /\ UNCHANGED <<busy, busyActions, wizardVars, wizardFields>>

(***************************************************************************)
(* Answer to the GET /projects/{id} of the project config effect           *)
(* (lines 855-872)                                                         *)
(***************************************************************************)
ConfigSuccess(r, cfg) ==
    /\ r \in cfgReqs
    /\ RunEffects(engineOk, projectId, autoLoadOnProjectSelect, cfg.setup_complete,
                  cfg, cfgReqs \ {r}, projReqs, tasks)
    /\ IF ~cfg.setup_complete
       THEN openWizardFromCfg(cfg, TRUE)
       ELSE UNCHANGED <<wizardFields, wizardOpen, wizardErr, wizardDirty>>
    /\ UNCHANGED <<busy, busyActions, wizardSaving>>

ConfigFailure(r) ==
    /\ r \in cfgReqs
    /\ RunEffects(engineOk, projectId, autoLoadOnProjectSelect, FALSE,
                  NoCfg, cfgReqs \ {r}, projReqs, tasks)
    /\ wizardErr' = ErrFetchFailed
    /\ wizardOpen' = TRUE
    /\ UNCHANGED <<busy, busyActions, wizardSaving, wizardDirty,
                   wizardFields>>

(***************************************************************************)
(* The Settings button (lines 1396-1407)                                   *)
(***************************************************************************)
OpenSettings ==
    /\ engineOk /\ projectId /= NoProject
    /\ IF projectCfg /= NoCfg
       THEN openWizardFromCfg(projectCfg, TRUE)
       ELSE /\ wizardOpen' = TRUE
            /\ UNCHANGED <<wizardFields, wizardErr, wizardDirty>>
    /\ NoEffects
    /\ UNCHANGED <<busy, busyActions, wizardSaving, tasks>>

(***************************************************************************)
(* Dismissing the wizard: the Close button (lines 1309-1316) and a click   *)
(* on the backdrop (lines 1180-1182).                                      *)
(***************************************************************************)
\* closable as soon as a config is loaded, whatever its setup_complete
wizardCanCloseWhenLoaded == setupComplete \/ projectCfg /= NoCfg

wizardCanClose == setupComplete

CloseButton ==
    /\ wizardOpen
    /\ wizardCanClose /\ ~wizardSaving
    /\ wizardOpen' = FALSE
    /\ NoEffects
    /\ UNCHANGED <<busy, busyActions, wizardErr, wizardSaving,
                   wizardDirty, wizardFields, tasks>>

BackdropClick ==
    /\ wizardOpen
    /\ wizardCanClose
    /\ wizardOpen' = FALSE
    /\ NoEffects
    /\ UNCHANGED <<busy, busyActions, wizardErr, wizardSaving,
                   wizardDirty, wizardFields, tasks>>

(***************************************************************************)
(* Typing into the wizard's fields (lines 1221-1297)                       *)
(***************************************************************************)
EditAllow(t) ==
    /\ wizardOpen
    /\ wizAllowText' = t
    /\ wizardDirty' = TRUE
    /\ NoEffects
    /\ UNCHANGED <<busy, busyActions, wizardOpen, wizardErr,
                   wizardSaving, wizDenyText, wizQps, wizRoeText, tasks>>

EditDeny(t) ==
    /\ wizardOpen
    /\ wizDenyText' = t
    /\ wizardDirty' = TRUE
    /\ NoEffects
    /\ UNCHANGED <<busy, busyActions, wizardOpen, wizardErr,
                   wizardSaving, wizAllowText, wizQps, wizRoeText, tasks>>

EditQps(t) ==
    /\ wizardOpen
    /\ wizQps' = t
    /\ wizardDirty' = TRUE
    /\ NoEffects
    /\ UNCHANGED <<busy, busyActions, wizardOpen, wizardErr,
                   wizardSaving, wizAllowText, wizDenyText, wizRoeText, tasks>>

EditRoe(t) ==
    /\ wizardOpen
    /\ wizRoeText' = t
    /\ wizardDirty' = TRUE
    /\ NoEffects
    /\ UNCHANGED <<busy, busyActions, wizardOpen, wizardErr,
                   wizardSaving, wizAllowText, wizDenyText, wizQps, tasks>>

\* the QPS check moved in front of the allow-list check
wizardSaveErrorQpsFirst(pid, allowText, qpsText, roeText) ==
    IF pid = NoProject THEN ErrNoProject
    ELSE IF QpsRejected(QpsNumber(qpsText)) THEN InvalidQps
    ELSE IF parseLinesToList(allowText) = <<>> THEN EmptyScopeAllowlist
    ELSE IF safeJsonParse(roeText) = JsonNull THEN InvalidRoeJson
    ELSE ErrNone

(***************************************************************************)
(* wizardSave (lines 1091-1160).                                           *)
(* wizardSaveError is what lines 1093-1119 report, ErrNone when the form   *)
(* passes; the checks run in this order and the first failure returns.     *)
(***************************************************************************)
wizardSaveError(pid, allowText, qpsText, roeText) ==
    IF pid = NoProject THEN ErrNoProject
    ELSE IF parseLinesToList(allowText) = <<>> THEN EmptyScopeAllowlist
    ELSE IF QpsRejected(QpsNumber(qpsText)) THEN InvalidQps
    ELSE IF safeJsonParse(roeText) = JsonNull THEN InvalidRoeJson
    ELSE ErrNone

\* the PATCH payload, lines 1123-1128
wizardSavePayload(allowText, denyText, qpsText, roeText) ==
    [scope_allow |-> parseLinesToList(allowText),
     scope_deny |-> parseLinesToList(denyText),
     qps |-> QpsNumber(qpsText),
     roe |-> safeJsonParse(roeText)]

\* setWizardSaving(true) moved in front of the validation
WizardSaveClickSavingFirst ==
    /\ wizardOpen
    /\ engineOk /\ ~wizardSaving
    /\ LET err == wizardSaveError(projectId, wizAllowText, wizQps, wizRoeText)
           t == [Task("save", "patch", projectId, setupComplete,
                      autoLoadOnProjectSelect)
                 EXCEPT !.body = wizardSavePayload(wizAllowText, wizDenyText,
                                                   wizQps, wizRoeText)]
       IN  /\ wizardErr' = err
           /\ wizardSaving' = TRUE
           /\ IF err = ErrNone
              THEN /\ CanStart(tasks, t)
                   /\ tasks' = tasks \cup {t}
              ELSE UNCHANGED tasks
    /\ NoEffects
    /\ UNCHANGED <<busy, busyActions, wizardOpen, wizardDirty,
                   wizardFields>>

\* the Finish setup button (line 1305) up to the first await (line 1130)
WizardSaveClick ==
    /\ wizardOpen
    /\ engineOk /\ ~wizardSaving
    /\ LET err == wizardSaveError(projectId, wizAllowText, wizQps, wizRoeText)
           t == [Task("save", "patch", projectId, setupComplete,
                      autoLoadOnProjectSelect)
                 EXCEPT !.body = wizardSavePayload(wizAllowText, wizDenyText,
                                                   wizQps, wizRoeText)]
       IN  /\ wizardErr' = err
           /\ IF err = ErrNone
              THEN /\ CanStart(tasks, t)
                   /\ wizardSaving' = TRUE
                   /\ tasks' = tasks \cup {t}
              ELSE UNCHANGED <<wizardSaving, tasks>>
    /\ NoEffects
    /\ UNCHANGED <<busy, busyActions, wizardOpen, wizardDirty,
                   wizardFields>>

\* the catch without the finally: wizardSaving is left set
SavePatchFailureNoFinally(t) ==
    /\ t \in tasks /\ t.kind = "save" /\ t.pc = "patch"
    /\ wizardErr' = ErrSaveFailedPatch
    /\ tasks' = tasks \ {t}
    /\ NoEffects
    /\ UNCHANGED <<busy, busyActions, wizardOpen, wizardSaving, wizardDirty,
                   wizardFields>>

\* the PATCH fails: catch and finally (lines 1155-1159)
SavePatchFailure(t) ==
    /\ t \in tasks /\ t.kind = "save" /\ t.pc = "patch"
    /\ wizardErr' = ErrSaveFailedPatch
    /\ wizardSaving' = FALSE
    /\ tasks' = tasks \ {t}
    /\ NoEffects
    /\ UNCHANGED <<busy, busyActions, wizardOpen, wizardDirty,
                   wizardFields>>

\* PATCH /projects/{id} answers with the updated config: what the body
\* asked for, and the engine's setup_complete
PatchAnswer(body, sc) ==
    [setup_complete |-> sc, allow |-> body.scope_allow, deny |-> body.scope_deny,
     qps |-> body.qps.val, roe |-> body.roe]

\* the gate set from the form that passed validation, not from the answer
SavePatchSuccessLocal(t, data) ==
    /\ t \in tasks /\ t.kind = "save" /\ t.pc = "patch"
    /\ RunEffects(engineOk, projectId, autoLoadOnProjectSelect, TRUE,
                  data, cfgReqs, projReqs,
                  (tasks \ {t}) \cup {[t EXCEPT !.pc = "plist", !.body = NoBody]})
    /\ UNCHANGED <<busy, busyActions, wizardVars, wizardFields>>

\* the PATCH answers with data.project = data (lines 1136-1141)
SavePatchSuccess(t, data) ==
    /\ t \in tasks /\ t.kind = "save" /\ t.pc = "patch"
    /\ RunEffects(engineOk, projectId, autoLoadOnProjectSelect, data.setup_complete,
                  data, cfgReqs, projReqs,
                  (tasks \ {t}) \cup {[t EXCEPT !.pc = "plist", !.body = NoBody]})
    /\ UNCHANGED <<busy, busyActions, wizardVars, wizardFields>>

\* the GET /projects of line 1141 answers or fails, which is ignored
\* (lines 1142-1154)
SaveProjectsResponse(t) ==
    /\ t \in tasks /\ t.kind = "save" /\ t.pc = "plist"
    /\ wizardOpen' = FALSE
    /\ wizardDirty' = FALSE
    /\ IF t.auto
       THEN /\ tasks' = (tasks \ {t}) \cup {[t EXCEPT !.pc = "summary"]}
            /\ UNCHANGED wizardSaving
       ELSE /\ tasks' = tasks \ {t}
            /\ wizardSaving' = FALSE
    /\ NoEffects
    /\ UNCHANGED <<busy, busyActions, wizardErr, wizardFields>>

(***************************************************************************)
(* refreshSummary (lines 880-885) awaited by the auto-load effect          *)
(* (line 1005), createDemoProject (941), importHar (983), wizardSave       *)
(* (1152), and the loadActions call that follows it.                       *)
(***************************************************************************)
SummaryFailure(t) ==
    /\ t \in tasks /\ t.pc = "summary"
    /\ tasks' = tasks \ {t}
    /\ wizardErr' = IF t.kind = "save" THEN ErrSaveFailedSummary ELSE wizardErr
    /\ busy' = BusyAfter(t)
    /\ wizardSaving' = SavingAfter(t)
    /\ NoEffects
    /\ UNCHANGED <<busyActions, wizardOpen, wizardDirty,
                   wizardFields>>

\* loadActions(pid) up to its await (lines 887-903), with the closure's
\* setupComplete; sc false: lines 891-895, then the caller's finally
SummarySuccess(t) ==
    /\ t \in tasks /\ t.pc = "summary"
    /\ IF ~t.sc
       THEN /\ wizardOpen' = TRUE
            /\ tasks' = tasks \ {t}
            /\ busy' = BusyAfter(t)
            /\ wizardSaving' = SavingAfter(t)
            /\ UNCHANGED busyActions
       ELSE /\ busyActions' = TRUE
            /\ [t EXCEPT !.pc = "actions"] \notin tasks
            /\ tasks' = (tasks \ {t}) \cup {[t EXCEPT !.pc = "actions"]}
            /\ UNCHANGED <<wizardOpen, busy, wizardSaving>>
    /\ NoEffects
    /\ UNCHANGED <<wizardErr, wizardDirty, wizardFields>>

\* a failure that empties the list and the selection and resets the sort
ActionsResponseClearing(t, ok, list) ==
    /\ t \in tasks /\ t.pc = "actions"
    /\ busyActions' = FALSE
    /\ tasks' = tasks \ {t}
    /\ busy' = BusyAfter(t)
    /\ wizardSaving' = SavingAfter(t)
    /\ Render([View EXCEPT
                  !.actions = IF ok THEN list ELSE <<>>,
                  !.selectedActionKey =
                      IF ~ok THEN NoKey ELSE IF @ /= NoKey THEN @ ELSE FirstKey(list),
                  !.sortCol = "",
                  !.sortDir = "desc"], FALSE)
    /\ NoGateEffects
    /\ UNCHANGED <<wizardOpen, wizardErr, wizardDirty, wizardFields>>

\* GET /actions answers with list (ok, lines 904-909) or fails (lines
\* 910-911), then lines 912-914 and the caller's finally
ActionsResponse(t, ok, list) ==
    /\ t \in tasks /\ t.pc = "actions"
    /\ busyActions' = FALSE
    /\ tasks' = tasks \ {t}
    /\ busy' = BusyAfter(t)
    /\ wizardSaving' = SavingAfter(t)
    /\ IF ok
       THEN Render([View EXCEPT
                       !.actions = list,
                       !.selectedActionKey = IF @ /= NoKey THEN @ ELSE FirstKey(list),
                       !.sortCol = "",
                       !.sortDir = "desc"], FALSE)
       ELSE UNCHANGED viewVars
    /\ NoGateEffects
    /\ UNCHANGED <<wizardOpen, wizardErr, wizardDirty, wizardFields>>

\* the Load actions button (lines 1469-1476): loadActions()
LoadActionsClick ==
    /\ engineOk /\ projectId /= NoProject /\ ~busyActions /\ setupComplete
    /\ LET t == Task("load", "actions", projectId, setupComplete, FALSE)
       IN  /\ CanStart(tasks, t)
           /\ tasks' = tasks \cup {t}
    /\ busyActions' = TRUE
    /\ NoEffects
    /\ UNCHANGED <<busy, wizardVars, wizardFields>>

(***************************************************************************)
(* importHar (lines 951-991)                                               *)
(***************************************************************************)
\* the Import HAR button (lines 1456-1463), a file being chosen, up to the
\* first upload (line 972)
ImportClick ==
    /\ engineOk /\ ~busy /\ projectId /= NoProject /\ setupComplete
    /\ LET t == Task("import", "upload", projectId, setupComplete, FALSE)
       IN  /\ CanStart(tasks, t)
           /\ tasks' = tasks \cup {t}
    /\ busy' = TRUE
    /\ NoEffects
    /\ UNCHANGED <<busyActions, wizardVars, wizardFields>>

\* POST /import/har answers: result is "ok", "422" (a 422 or "field required"
\* error) or "error" (any other failure); lines 971-983, 986-990
UploadResponse(t, result) ==
    /\ t \in tasks /\ t.pc \in {"upload", "upload2"}
    /\ IF result = "ok"
       THEN /\ tasks' = (tasks \ {t}) \cup {[t EXCEPT !.pc = "summary"]}
            /\ UNCHANGED busy
       ELSE IF result = "422" /\ t.pc = "upload"
       THEN /\ tasks' = (tasks \ {t}) \cup {[t EXCEPT !.pc = "upload2"]}
            /\ UNCHANGED busy
       ELSE /\ tasks' = tasks \ {t}
            /\ busy' = FALSE
    /\ NoEffects
    /\ UNCHANGED <<busyActions, wizardVars, wizardFields>>

(***************************************************************************)
(* createDemoProject (lines 917-949)                                       *)
(***************************************************************************)
\* the button without busy in its disabled attribute
CreateDemoClickWhileBusy ==
    /\ engineOk
    /\ LET t == Task("demo", "post", NoProject, setupComplete,
                     autoLoadOnProjectSelect)
       IN  /\ CanStart(tasks, t)
           /\ tasks' = tasks \cup {t}
    /\ busy' = TRUE
    /\ NoEffects
    /\ UNCHANGED <<busyActions, wizardVars, wizardFields>>

\* the Create demo project button (line 1370) up to the POST (line 927)
CreateDemoClick ==
    /\ engineOk /\ ~busy
    /\ LET t == Task("demo", "post", NoProject, setupComplete,
                     autoLoadOnProjectSelect)
       IN  /\ CanStart(tasks, t)
           /\ tasks' = tasks \cup {t}
    /\ busy' = TRUE
    /\ NoEffects
    /\ UNCHANGED <<busyActions, wizardVars, wizardFields>>

\* POST /projects answers (line 933) or fails (lines 944-948)
DemoPostResponse(t, ok) ==
    /\ t \in tasks /\ t.kind = "demo" /\ t.pc = "post"
    /\ IF ok
       THEN /\ tasks' = (tasks \ {t}) \cup {[t EXCEPT !.pc = "list"]}
            /\ UNCHANGED busy
       ELSE /\ tasks' = tasks \ {t}
            /\ busy' = FALSE
    /\ NoEffects
    /\ UNCHANGED <<busyActions, wizardVars, wizardFields>>

\* GET /projects fails (lines 944-948)
DemoProjectsFailure(t) ==
    /\ t \in tasks /\ t.kind = "demo" /\ t.pc = "list"
    /\ tasks' = tasks \ {t}
    /\ busy' = FALSE
    /\ NoEffects
    /\ UNCHANGED <<busyActions, wizardVars, wizardFields>>

\* GET /projects answers with list; pid is the created project's id
\* (lines 934-943)
DemoProjectsSuccess(t, list, pid) ==
    /\ t \in tasks /\ t.kind = "demo" /\ t.pc = "list"
    /\ \E i \in 1..Len(list) : list[i] = pid
    /\ busy' = IF t.auto THEN busy ELSE FALSE
    /\ RunEffects(engineOk, pid, autoLoadOnProjectSelect, setupComplete,
                  projectCfg, cfgReqs, projReqs,
                  IF t.auto
                  THEN (tasks \ {t}) \cup {[t EXCEPT !.pc = "summary", !.pid = pid]}
                  ELSE tasks \ {t})
    /\ UNCHANGED <<busyActions, wizardVars, wizardFields>>

(***************************************************************************)
(* The handlers of the actions view.                                       *)
(***************************************************************************)
\* the UTF-16 code units of the characters of the model, ascending
CodeUnits == <<SP, "B", "G", "P", "a", "b", "g", "j", "p", "q", "t", "w", "x", "y", "z">>

CodeUnit(c) == CHOOSE i \in 1..Len(CodeUnits) : CodeUnits[i] = c

\* the order Array.prototype.sort() gives texts without a comparator: by
\* code units, a prefix first; negative, zero or positive
RECURSIVE unitCompare(_, _)
unitCompare(s, t) ==
    IF s = <<>> /\ t = <<>> THEN 0
    ELSE IF s = <<>> THEN -1
    ELSE IF t = <<>> THEN 1
    ELSE IF CodeUnit(s[1]) < CodeUnit(t[1]) THEN -1
    ELSE IF CodeUnit(s[1]) > CodeUnit(t[1]) THEN 1
    ELSE unitCompare(Tail(s), Tail(t))

\* the texts sorted with case ignored
RECURSIVE arraySortIgnoringCase(_)
arraySortIgnoringCase(S) ==
    IF S = {} THEN <<>>
    ELSE LET m == CHOOSE x \in S :
                     \A y \in S : localeCompare(toLowerCase(x), toLowerCase(y)) <= 0
         IN  <<m>> \o arraySortIgnoringCase(S \ {m})

\* Array.from(s).sort() of a Set s of texts (lines 552, 557, 562)
RECURSIVE arraySort(_)
arraySort(S) ==
    IF S = {} THEN <<>>
    ELSE LET m == CHOOSE x \in S : \A y \in S : unitCompare(x, y) <= 0
         IN  <<m>> \o arraySort(S \ {m})

\* the option arrays of lines 550-563 for the list acts: new Set(
\* acts.map(field).filter(Boolean)), sorted
optionsOf(acts, field) == arraySort({acts[i][field] : i \in 1..Len(acts)} \ {<<>>})

\* hostOptions, methodOptions, mimeOptions (lines 550-563): the non-empty
\* values of a field in the loaded list
hostOptions == {actions[i].host : i \in 1..Len(actions)} \ {<<>>}
methodOptions == {actions[i].method : i \in 1..Len(actions)} \ {<<>>}
mimeOptions == {actions[i].top_mime : i \in 1..Len(actions)} \ {<<>>}

\* the tags of tagStats (lines 378-388)
tagOptions ==
    UNION {{actions[i].risk_tags[j] : j \in 1..Len(actions[i].risk_tags)} :
              i \in 1..Len(actions)}

\* the table is rendered (lines 1653-1656)
TableShown == setupComplete /\ actions /= <<>>

\* the host, method and MIME <select>s (lines 1552-1565)
SetFHost(h) ==
    /\ h \in hostOptions \cup {<<>>}
    /\ h /= fHost
    /\ Render([View EXCEPT !.fHost = h], FALSE)
    /\ UNCHANGED otherVars

SetFMethod(m) ==
    /\ m \in methodOptions \cup {<<>>}
    /\ m /= fMethod
    /\ Render([View EXCEPT !.fMethod = m], FALSE)
    /\ UNCHANGED otherVars

SetFMime(m) ==
    /\ m \in mimeOptions \cup {<<>>}
    /\ m /= fMime
    /\ Render([View EXCEPT !.fMime = m], FALSE)
    /\ UNCHANGED otherVars

\* typing into the search box (lines 1567-1576)
SetQ(t) ==
    /\ setupComplete
    /\ t /= q
    /\ Render([View EXCEPT !.q = t], FALSE)
    /\ UNCHANGED otherVars

\* a timer that the next keystroke did not clear fires with the text it was
\* set for
DebounceFiresStale ==
    /\ \E t \in {<<>>, <<"B">>, <<"w">>} :
          /\ t /= qDebounced
          /\ Render([View EXCEPT !.qDebounced = t], FALSE)
    /\ UNCHANGED otherVars

\* the timer of useDebouncedValue fires (lines 104-111)
DebounceFires ==
    /\ qDebounced /= q
    /\ Render([View EXCEPT !.qDebounced = q], FALSE)
    /\ UNCHANGED otherVars

\* the has body checkbox (lines 1578-1581)
SetOnlyHasBody ==
    /\ setupComplete
    /\ Render([View EXCEPT !.onlyHasBody = ~onlyHasBody], FALSE)
    /\ UNCHANGED otherVars

\* the min count and min risk inputs (lines 1583-1607); n is
\* Math.max(0, parseInt(text, 10) || 0)
SetMinCount(n) ==
    /\ setupComplete
    /\ n >= 0 /\ n /= minCount
    /\ Render([View EXCEPT !.minCount = n], FALSE)
    /\ UNCHANGED otherVars

SetMinRisk(n) ==
    /\ setupComplete /\ hasRisk(actions)
    /\ n >= 0 /\ n /= minRisk
    /\ Render([View EXCEPT !.minRisk = n], FALSE)
    /\ UNCHANGED otherVars

\* a checkbox of the tag panel (lines 433-441, 496-508): the tag is shown
\* again when it was excluded, excluded when it was shown
setShowTag(tag) ==
    /\ setupComplete
    /\ tag \in tagOptions
    /\ Render([View EXCEPT !.excludedTags =
                  IF tag \in @ THEN @ \ {tag} ELSE @ \cup {tag}], TRUE)
    /\ UNCHANGED otherVars

\* the Reset UI button (lines 1014-1028, 1609)
resetUi ==
    /\ setupComplete
    /\ Render([View EXCEPT !.fHost = <<>>, !.fMethod = <<>>, !.fMime = <<>>,
                          !.q = <<>>, !.onlyHasBody = FALSE, !.minCount = 0,
                          !.minRisk = 0, !.sortCol = "", !.sortDir = "desc",
                          !.excludedTags = {}], TRUE)
    /\ cols' = defaultCols
    /\ UNCHANGED <<gateVars, cfgCancelled, engineUrl, engineErr, engineLastOkAt, now, polls,
                   focusMode>>

\* the sort columns of the table header (lines 1665-1674)
SortCols == {"count", "risk", "method", "host", "path", "mime", "bytes", "time", "body"}

\* a header that goes from desc to asc and back, never to the default
sortAfterToggleTwoWay(sCol, sDir, col) ==
    IF sCol /= col THEN [col |-> col, dir |-> "desc"]
    ELSE IF sDir = "desc" THEN [col |-> col, dir |-> "asc"]
    ELSE [col |-> col, dir |-> "desc"]

\* what toggleSort(col) (lines 522-534) sets from sortCol sCol and sortDir
\* sDir
sortAfterToggle(sCol, sDir, col) ==
    IF sCol /= col THEN [col |-> col, dir |-> "desc"]
    ELSE IF sDir = "desc" THEN [col |-> col, dir |-> "asc"]
    ELSE [col |-> "", dir |-> "desc"]

\* a click on a column header: toggleSort (lines 522-534)
toggleSort(col) ==
    /\ TableShown
    /\ col = "risk" => hasRisk(actions)
    /\ LET s == sortAfterToggle(sortCol, sortDir, col)
       IN  Render([View EXCEPT !.sortCol = s.col, !.sortDir = s.dir], FALSE)
    /\ UNCHANGED otherVars

\* a click on a row of the table (line 1696)
RowClick(k) ==
    /\ TableShown
    /\ HasKey(filteredActions, k)
    /\ Render([View EXCEPT !.selectedActionKey = k], FALSE)
    /\ UNCHANGED otherVars

\* the index of the selection in the view, 1 when it is not there (lines
\* 676-677, counting from 1)
curIndex(view, key) ==
    IF HasKey(view, key) THEN CHOOSE i \in 1..Len(view) : view[i].key = key ELSE 1

\* the move going round at the ends instead of stopping there
navTargetWrap(view, key, k) ==
    IF k = "ArrowDown"
    THEN view[(curIndex(view, key) % Len(view)) + 1].key
    ELSE view[((curIndex(view, key) + Len(view) - 2) % Len(view)) + 1].key

\* lines 679-683: the key the intent k moves to, in a view that is not empty
navTarget(view, key, k) ==
    IF k = "ArrowDown"
    THEN view[IF curIndex(view, key) + 1 > Len(view)
              THEN Len(view) ELSE curIndex(view, key) + 1].key
    ELSE view[IF curIndex(view, key) - 1 < 1 THEN 1 ELSE curIndex(view, key) - 1].key

\* the keys onKeyDown handles by changing the selection, pressed outside
\* a text field
NavKeys == {"ArrowDown", "ArrowUp"}

(***************************************************************************)
(* ArrowDown or ArrowUp outside a text field (lines 724-725, 755-761) sets *)
(* navIntent; the render that follows runs the two navIntent effects       *)
(* (lines 667-691), which move the selection and put navIntent back to "". *)
(***************************************************************************)
ArrowKey(k) ==
    /\ ~wizardOpen
    /\ Render([View EXCEPT !.selectedActionKey =
                  IF filteredActions = <<>> THEN @
                  ELSE navTarget(filteredActions, @, k)], FALSE)
    /\ UNCHANGED otherVars

\* Escape followed by a run of the self-heal effect, as if the effect
\* depended on the selection
EscapeKeyHealed ==
    /\ ~wizardOpen
    /\ Render([View EXCEPT !.selectedActionKey = NoKey], TRUE)
    /\ UNCHANGED otherVars

\* Escape outside a text field (lines 724-725, 793)
EscapeKey ==
    /\ ~wizardOpen
    /\ Render([View EXCEPT !.selectedActionKey = NoKey], FALSE)
    /\ UNCHANGED otherVars

(***************************************************************************)
(* What the user types into the wizard.                                    *)
(***************************************************************************)
AllowTyped == {<<>>, HostA}
DenyTyped == {<<>>, HostB}
QpsTyped == {<<>>, <<"0">>, <<"3">>, <<SP>>, <<SP, "3">>}
RoeTyped == {<<"{", "}">>, <<"null">>}

(***************************************************************************)
(* Spec: the gate and the wizard for a user who works on one project, p1:  *)
(* health poll, project list, selecting and deselecting p1, the config     *)
(* answers, Settings, dismissal, typing the allow list, wizardSave with    *)
(* its refresh, and the Load actions button.  SpecPaths below has two      *)
(* projects and the other ways to a request.  In both, the projects hold   *)
(* no actions: GET /actions answers with the empty list.                   *)
(***************************************************************************)
Next ==
    \/ \E ok \in BOOLEAN : HealthResult(ok)
    \/ \E c \in projReqs, ok \in BOOLEAN, list \in ProjectLists :
          ProjectsResponse(c, ok, list)
    \/ \E p \in {"p1", NoProject} : SelectProject(p)
    \/ \E r \in cfgReqs, cfg \in Configs : ConfigSuccess(r, cfg)
    \/ \E r \in cfgReqs : ConfigFailure(r)
    \/ OpenSettings
    \/ CloseButton
    \/ BackdropClick
    \/ \E t \in AllowTyped : EditAllow(t)
    \/ WizardSaveClick
    \/ \E t \in tasks : SavePatchFailure(t)
    \/ \E t \in SavesAtPatch, sc \in BOOLEAN :
          SavePatchSuccess(t, PatchAnswer(t.body, sc))
    \/ \E t \in tasks : SaveProjectsResponse(t)
    \/ \E t \in tasks : SummaryFailure(t)
    \/ \E t \in tasks : SummarySuccess(t)
    \/ \E t \in tasks, ok \in BOOLEAN : ActionsResponse(t, ok, <<>>)
    \/ LoadActionsClick

Spec == Init /\ [][Next]_vars

(***************************************************************************)
(* SpecPaths: every path to an action-list or import request (the Load     *)
(* actions and Import HAR buttons, auto-load, createDemoProject), with the *)
(* wizard left as the config effect opens it.                              *)
(***************************************************************************)
NextPaths ==
    \/ \E ok \in BOOLEAN : HealthResult(ok)
    \/ \E c \in projReqs, ok \in BOOLEAN, list \in ProjectLists :
          ProjectsResponse(c, ok, list)
    \/ \E p \in Pids \cup {NoProject} : SelectProject(p)
    \/ ToggleAutoLoad
    \/ \E r \in cfgReqs, cfg \in Configs : ConfigSuccess(r, cfg)
    \/ \E r \in cfgReqs : ConfigFailure(r)
    \/ LoadActionsClick
    \/ ImportClick
    \/ \E t \in tasks, result \in {"ok", "422", "error"} : UploadResponse(t, result)
    \/ CreateDemoClick
    \/ \E t \in tasks, ok \in BOOLEAN : DemoPostResponse(t, ok)
    \/ \E t \in tasks : DemoProjectsFailure(t)
    \/ \E t \in tasks, list \in ProjectLists, pid \in Pids :
          DemoProjectsSuccess(t, list, pid)
    \/ \E t \in tasks : SummaryFailure(t)
    \/ \E t \in tasks : SummarySuccess(t)
    \/ \E t \in tasks, ok \in BOOLEAN : ActionsResponse(t, ok, <<>>)

SpecPaths == Init /\ [][NextPaths]_vars

(***************************************************************************)
(* Properties of the setup gate.                                           *)
(***************************************************************************)
\* the requests that load actions or import a HAR
GatedRequests == {"actions", "upload", "upload2"}

\* the gated requests this step issues for the selected project
IssuedNow == {t \in tasks' \ tasks : t.pc \in GatedRequests /\ t.pid = projectId}

\* C1: an action-list or import request for the selected project is issued
\* only while that project's gate is COMPLETE.
C1_IssuedOnlyWhenComplete == [][IssuedNow /= {} => Gate = "COMPLETE"]_vars

C4_BlockedAfterFetchFailure ==
    [][\A t \in IssuedNow : Gate /= "FETCH_FAILED"]_vars

FromEngineAnswer ==
    \/ \E r \in cfgReqs, cfg \in Configs :
          ConfigSuccess(r, cfg) /\ setupComplete' = cfg.setup_complete
    \/ \E t \in SavesAtPatch, sc \in BOOLEAN :
          SavePatchSuccess(t, PatchAnswer(t.body, sc)) /\ setupComplete' = sc

SaveEnds(t) ==
    /\ t \in tasks /\ t.kind = "save" /\ t.pc /= "patch"
    /\ \A u \in tasks' : u.kind /= "save"

\* C10: when a wizardSave whose PATCH succeeded ends, the wizard is closed
\* (unless the user has reopened it since the save closed it), dirty is false
\* and saving is false.
C10_ClosedWhenSaveEnds ==
    [][\A t \in tasks :
         (SaveEnds(t) /\ (t.pc = "plist" \/ ~wizardOpen)) =>
           ~wizardOpen' /\ ~wizardDirty' /\ ~wizardSaving']_vars

(***************************************************************************)
(* The wizard's validation on its own: SpecWizard starts where the config  *)
(* of a fresh project has been fetched, the wizard is open and the user    *)
(* has typed allow, QPS and ROE, and runs wizardSave (auto-load is off);   *)
(* the user may go on typing.                                              *)
(***************************************************************************)
\* the texts of at most MaxTextLen characters over an alphabet
Texts(alphabet) == UNION {[1..n -> alphabet] : n \in 0..MaxTextLen}

AllowTexts == Texts({"a", SP, NL})
QpsTexts == Texts({"0", "3", "-"})
RoeTexts == Texts({"{", "}"})

InitWizard ==
    /\ engineOk = TRUE
    /\ projectId = "p1"
    /\ busy = FALSE
    /\ busyActions = FALSE
    /\ autoLoadOnProjectSelect = FALSE
    /\ projectCfg = CfgFresh
    /\ setupComplete = FALSE
    /\ wizardOpen = TRUE
    /\ wizardErr = ErrNone
    /\ wizardSaving = FALSE
    /\ wizardDirty = TRUE
    /\ wizAllowText \in AllowTexts
    /\ wizDenyText = <<>>
    /\ wizQps \in QpsTexts
    /\ wizRoeText \in RoeTexts
    /\ projReqs = {}
    /\ cfgReqs = {}
    /\ tasks = {}
    /\ InitViewDefault
    /\ InitShellDefault

NextWizard ==
    \/ WizardSaveClick
    \/ \E t \in tasks : SavePatchFailure(t)
    \/ \E t \in SavesAtPatch, sc \in BOOLEAN :
          SavePatchSuccess(t, PatchAnswer(t.body, sc))
    \/ \E t \in tasks : SaveProjectsResponse(t)
    \/ \E t \in AllowTyped : EditAllow(t)
    \/ \E t \in DenyTyped : EditDeny(t)
    \/ \E t \in QpsTyped : EditQps(t)
    \/ \E t \in RoeTyped : EditRoe(t)

SpecWizard == InitWizard /\ [][NextWizard]_vars

\* a text without a non-blank line
AllBlank(text) == \A i \in 1..Len(text) : text[i] \in Whitespace

\* not a finite number above 0
NotPositive(n) == n.nan \/ n.val <= 0

\* the PATCH requests this step sends
PatchesSent == {t \in tasks' \ tasks : t.pc = "patch"}

\* C5: a save that fails validation sends no request and changes nothing but
\* the wizard's error text.
C5_RejectedSaveChangesOnlyError ==
    [][(WizardSaveClick /\ wizardErr' /= ErrNone) =>
         /\ wizardErr' \in {EmptyScopeAllowlist, InvalidQps, InvalidRoeJson}
         /\ UNCHANGED <<tasks, cfgReqs, projReqs>>
         /\ UNCHANGED <<setupComplete, projectCfg, wizardOpen, wizardDirty,
                        wizardSaving>>]_vars

\* a save rejected for its ROE text: no request, the flags as they were
C5_Rejected ==
    /\ wizardErr = InvalidRoeJson /\ tasks = {}
    /\ wizardOpen /\ wizardDirty /\ ~wizardSaving /\ ~setupComplete

\* C6: the save reports the first failing check: an allow text without a
\* non-blank line gives EmptyScopeAllowlist whatever QPS and ROE are; else an
\* invalid QPS gives InvalidQps whatever ROE is; else an unparsable ROE gives
\* InvalidRoeJson.
C6_FirstFailureWins ==
    [][WizardSaveClick =>
         /\ AllBlank(wizAllowText) => wizardErr' = EmptyScopeAllowlist
         /\ (~AllBlank(wizAllowText) /\ NotPositive(QpsNumber(wizQps))) =>
              wizardErr' = InvalidQps
         /\ (~AllBlank(wizAllowText) /\ ~NotPositive(QpsNumber(wizQps))
               /\ JsonParse(wizRoeText) = JsonError) =>
              wizardErr' = InvalidRoeJson]_vars

\* all three checks fail and the first is the one reported
C6_AllowReportedFirst ==
    /\ wizardErr = EmptyScopeAllowlist
    /\ wizAllowText = <<SP, NL>> /\ wizQps = <<"0">> /\ wizRoeText = <<"{">>

\* C7 as stated: with a non-empty allow-list, every QPS text that Number()
\* does not turn into a finite number above 0, the empty text included, is
\* rejected with InvalidQps, and a PATCH carries the number the text denotes.
C7_EveryBadQpsRejected ==
    [][(WizardSaveClick /\ ~AllBlank(wizAllowText)) =>
         /\ NotPositive(NumberOfText(wizQps)) => wizardErr' = InvalidQps
         /\ \A t \in PatchesSent :
               t.body.qps = NumberOfText(wizQps) /\ ~NotPositive(t.body.qps)]_vars

\* C7 amended: as stated for every QPS text but the empty one; the empty text
\* stands for the default 3, is not rejected with InvalidQps, and its PATCH
\* carries qps 3.
C7_BadQpsRejectedButEmpty ==
    [][(WizardSaveClick /\ ~AllBlank(wizAllowText)) =>
         IF wizQps = <<>>
         THEN /\ wizardErr' /= InvalidQps
              /\ \A t \in PatchesSent : t.body.qps = Num(3)
         ELSE /\ NotPositive(NumberOfText(wizQps)) => wizardErr' = InvalidQps
              /\ \A t \in PatchesSent :
                    /\ t.body.qps = NumberOfText(wizQps)
                    /\ ~NotPositive(t.body.qps)]_vars

\* a PATCH in flight for the empty QPS text, carrying qps 3
C7_EmptyQpsSent ==
    \E t \in SavesAtPatch :
        wizQps = <<>> /\ t.body.qps = Num(3) /\ wizardErr = ErrNone

(***************************************************************************)
(* SpecSelect: the selection.  The engine is healthy, project p1 is set up *)
(* and nothing is loaded yet; auto-load is off, so that a selection read   *)
(* from the stored preferences (line 213) is still there.  The user loads  *)
(* and reloads the action list, switches between the projects, filters by  *)
(* host and by tag, sorts by count, clicks rows and uses the arrow keys    *)
(* and Escape.                                                             *)
(***************************************************************************)
StoredKeys == {NoKey, <<"x">>}

\* what GET /actions answers with in SpecSelect
SelectLists == ActionListsOf({ActX, ActY, ActZ}, MaxActions)

InitSelect ==
    /\ engineOk = TRUE
    /\ projectId = "p1"
    /\ busy = FALSE
    /\ busyActions = FALSE
    /\ autoLoadOnProjectSelect = FALSE
    /\ projectCfg = CfgComplete
    /\ setupComplete = TRUE
    /\ wizardOpen = FALSE
    /\ wizardErr = ErrNone
    /\ wizardSaving = FALSE
    /\ wizardDirty = FALSE
    /\ wizAllowText = <<>>
    /\ wizDenyText = <<>>
    /\ wizQps = <<"3">>
    /\ wizRoeText = <<"{", "}">>
    /\ projReqs = {}
    /\ cfgReqs = {}
    /\ tasks = {}
    /\ actions = <<>>
    /\ selectedActionKey \in StoredKeys
    /\ fHost = <<>>
    /\ fMethod = <<>>
    /\ fMime = <<>>
    /\ q = <<>>
    /\ qDebounced = <<>>
    /\ onlyHasBody = FALSE
    /\ minCount = 0
    /\ minRisk = 0
    /\ excludedTags = {}
    /\ sortCol = ""
    /\ sortDir = "desc"
    /\ InitShellDefault

NextSelect ==
    \/ \E p \in Pids : SelectProject(p)
    \/ \E r \in cfgReqs : ConfigSuccess(r, CfgComplete)
    \/ LoadActionsClick
    \/ \E t \in tasks, list \in SelectLists : ActionsResponse(t, TRUE, list)
    \/ \E t \in tasks : ActionsResponse(t, FALSE, <<>>)
    \/ \E h \in hostOptions \cup {<<>>} : SetFHost(h)
    \/ \E tag \in tagOptions : setShowTag(tag)
    \/ toggleSort("count")
    \/ \E k \in KeysOf(filteredActions) : RowClick(k)
    \/ \E k \in NavKeys : ArrowKey(k)
    \/ EscapeKey

SpecSelect == InitSelect /\ [][NextSelect]_vars

\* C11: in every settled state a selection that is set is the key of an
\* element of the filtered view.
C11_SelectionInView ==
    selectedActionKey /= NoKey => HasKey(filteredActions, selectedActionKey)

\* C12: whenever the filtered view becomes another view, the selection is
\* healed against the new view: an unset selection, or one that is not a key
\* of the new view, becomes the key of the new view's first element (unset
\* when the new view is empty); a selection that is in the new view stays.
C12_HealedOnEveryNewView ==
    [][filteredActionsIn(View') /= filteredActions =>
          selectedActionKey' =
             IF selectedActionKey = NoKey
                   \/ ~HasKey(filteredActionsIn(View'), selectedActionKey)
             THEN FirstKey(filteredActionsIn(View'))
             ELSE selectedActionKey]_vars

\* the view state but the selection, and all that is not view state
AllButSelection == <<otherVars, actions, filterVars, sortVars>>

\* the index i moved by the intent k and kept within 1..n
ClampedMove(i, k, n) ==
    LET j == IF k = "ArrowDown" THEN i + 1 ELSE i - 1
    IN  IF j < 1 THEN 1 ELSE IF j > n THEN n ELSE j

\* where the selection is in the view, the first row when it is not there
IndexOrFirst(view, key) ==
    IF \E n \in 1..Len(view) : view[n].key = key
    THEN CHOOSE n \in 1..Len(view) : view[n].key = key
    ELSE 1

\* C13: a previous/next intent on a non-empty view selects the element one
\* row before/after the current selection (taken as the first row when it
\* is not in the view), stopping at the first and last row; the result is a
\* key of the view and nothing else changes.  On an empty view the intent
\* changes nothing.
C13_NavMovesOneRowClamped ==
    [][\A k \in NavKeys :
          ArrowKey(k) =>
             IF filteredActions = <<>>
             THEN UNCHANGED vars
             ELSE /\ selectedActionKey' =
                        filteredActions[
                           ClampedMove(IndexOrFirst(filteredActions, selectedActionKey),
                                       k, Len(filteredActions))].key
                  /\ HasKey(filteredActionsIn(View'), selectedActionKey')
                  /\ UNCHANGED AllButSelection]_vars

\* the selection has reached the last of three rows, where a further
\* ArrowDown stops
C13_AtLastRow ==
    /\ ~wizardOpen
    /\ Len(filteredActions) = 3
    /\ selectedActionKey = filteredActions[3].key
    /\ selectedActionKey /= FirstKey(actions)

\* a successful answer to GET /actions: the list is a new array even when it
\* holds what the last answer held
ActionsLoaded == \E t \in tasks, list \in SelectLists : ActionsResponse(t, TRUE, list)

\* what filteredActions is computed from changes (dependencies of the memo,
\* lines 650-663)
ViewInputsChange ==
    <<actions, excludedTags, fHost, fMethod, fMime, qDebounced, sortCol, sortDir,
      onlyHasBody, minCount, minRisk>>' /=
    <<actions, excludedTags, fHost, fMethod, fMime, qDebounced, sortCol, sortDir,
      onlyHasBody, minCount, minRisk>>

\* C14: Escape (wizard closed, outside a text field) unsets the selection
\* whatever it and the view are, and changes nothing else; an unset
\* selection becomes set only by a recomputation of the view (its inputs
\* change, or the list is loaded again), a row click or a navigation intent.
C14_EscapeUnsetsOnlySelection ==
    [][/\ EscapeKey => selectedActionKey' = NoKey /\ UNCHANGED AllButSelection
       /\ (selectedActionKey = NoKey /\ selectedActionKey' /= NoKey) =>
             \/ ViewInputsChange
             \/ ActionsLoaded
             \/ \E k \in KeysOf(filteredActions) : RowClick(k)
             \/ \E k \in NavKeys : ArrowKey(k)]_vars

\* Escape has unset the selection over a view that shows rows
C14_UnsetOverRows ==
    /\ ~wizardOpen
    /\ selectedActionKey = NoKey
    /\ filteredActions /= <<>>

(***************************************************************************)
(* SpecFilter: the filters.  Project p1 is set up and GET /actions has     *)
(* answered with any list of ActionLists; the view is as loadActions       *)
(* leaves it (first record selected, default sort, no filter).  The user   *)
(* sets and clears the filters, at most MaxFilters of them in force at a   *)
(* time, and resets the UI; the sort stays the default.                    *)
(***************************************************************************)
InitLoaded ==
    /\ engineOk = TRUE
    /\ projectId = "p1"
    /\ busy = FALSE
    /\ busyActions = FALSE
    /\ autoLoadOnProjectSelect = FALSE
    /\ projectCfg = CfgComplete
    /\ setupComplete = TRUE
    /\ wizardOpen = FALSE
    /\ wizardErr = ErrNone
    /\ wizardSaving = FALSE
    /\ wizardDirty = FALSE
    /\ wizAllowText = <<>>
    /\ wizDenyText = <<>>
    /\ wizQps = <<"3">>
    /\ wizRoeText = <<"{", "}">>
    /\ projReqs = {}
    /\ cfgReqs = {}
    /\ tasks = {}
    /\ actions \in ActionLists
    /\ selectedActionKey = FirstKey(actions)
    /\ fHost = <<>>
    /\ fMethod = <<>>
    /\ fMime = <<>>
    /\ q = <<>>
    /\ qDebounced = <<>>
    /\ onlyHasBody = FALSE
    /\ minCount = 0
    /\ minRisk = 0
    /\ excludedTags = {}
    /\ sortCol = ""
    /\ sortDir = "desc"
    /\ InitShellDefault

\* what the user types into the search box and the threshold inputs
SearchTyped == {<<>>, <<"B">>, <<"w", SP>>, <<"t", SP, "w">>}
MinCountTyped == {0, 5, 9}
MinRiskTyped == {0, 10, 80}

\* the number of filters of v in force
FiltersInForce(v) ==
    (IF v.fHost /= <<>> THEN 1 ELSE 0) + (IF v.fMethod /= <<>> THEN 1 ELSE 0)
    + (IF v.fMime /= <<>> THEN 1 ELSE 0)
    + (IF v.q /= <<>> \/ v.qDebounced /= <<>> THEN 1 ELSE 0)
    + (IF v.onlyHasBody THEN 1 ELSE 0) + (IF v.minCount > 0 THEN 1 ELSE 0)
    + (IF v.minRisk > 0 THEN 1 ELSE 0) + (IF v.excludedTags /= {} THEN 1 ELSE 0)

Within(v) == FiltersInForce(v) <= MaxFilters

NextFilter ==
    \/ \E h \in hostOptions \cup {<<>>} :
          Within([View EXCEPT !.fHost = h]) /\ SetFHost(h)
    \/ \E m \in methodOptions \cup {<<>>} :
          Within([View EXCEPT !.fMethod = m]) /\ SetFMethod(m)
    \/ \E m \in mimeOptions \cup {<<>>} :
          Within([View EXCEPT !.fMime = m]) /\ SetFMime(m)
    \/ \E t \in SearchTyped : Within([View EXCEPT !.q = t]) /\ SetQ(t)
    \/ DebounceFires
    \/ Within([View EXCEPT !.onlyHasBody = ~onlyHasBody]) /\ SetOnlyHasBody
    \/ \E n \in MinCountTyped : Within([View EXCEPT !.minCount = n]) /\ SetMinCount(n)
    \/ \E n \in MinRiskTyped : Within([View EXCEPT !.minRisk = n]) /\ SetMinRisk(n)
    \/ \E tag \in tagOptions :
          Within([View EXCEPT !.excludedTags = @ \cup {tag}]) /\ setShowTag(tag)
    \/ resetUi

SpecFilter == InitLoaded /\ [][NextFilter]_vars

\* text holds sub, case ignored
HoldsIgnoringCase(text, sub) == includes(toLowerCase(text), toLowerCase(sub))

\* a satisfies every filter in force, with needle the text searched for
Satisfies(a, needle) ==
    /\ \A i \in 1..Len(a.risk_tags) : a.risk_tags[i] \notin excludedTags
    /\ fHost = <<>> \/ a.host = fHost
    /\ fMethod = <<>> \/ a.method = fMethod
    /\ fMime = <<>> \/ a.top_mime = fMime
    /\ onlyHasBody => a.has_body
    /\ (IF a.count = <<>> THEN 0 ELSE a.count[1]) >= minCount
    /\ (IF a.risk_score = <<>> THEN 0 ELSE a.risk_score[1]) >= minRisk
    /\ \/ HoldsIgnoringCase(a.host, needle)
       \/ HoldsIgnoringCase(a.path_template, needle)
       \/ HoldsIgnoringCase(a.method, needle)
       \/ HoldsIgnoringCase(a.top_mime, needle)
       \/ HoldsIgnoringCase(a.key, needle)
       \/ HoldsIgnoringCase(join(a.risk_tags), needle)

\* the view before line 649 cuts it
UncutView == sortedActions(actions, View, sortCol, sortDir)

\* the view before the cut holds each loaded action that satisfies the
\* filters for needle once, and no other
HoldsExactly(needle) ==
    /\ \A i \in 1..Len(actions) :
          Satisfies(actions[i], needle) <=> HasKey(UncutView, actions[i].key)
    /\ \A i \in 1..Len(UncutView) : \E j \in 1..Len(actions) : UncutView[i] = actions[j]
    /\ \A i, j \in 1..Len(UncutView) : UncutView[i].key = UncutView[j].key => i = j

\* C15 as stated: before truncation the view holds exactly the loaded
\* actions that satisfy all filters in force, the search text as typed
\* being a substring (case ignored) of one of the searched fields.
C15_ExactlyTheSatisfying == HoldsExactly(qDebounced)

\* C15 amended: the same, for the search text with the white space at its
\* two ends removed.
C15_ExactlyTheSatisfyingTrimmed == HoldsExactly(Trim(qDebounced))

\* a search text that ends in a blank finds the actions that hold its
\* trimmed text, next to a threshold in force
C15_TrimmedSearchFinds ==
    /\ qDebounced = <<"w", SP>>
    /\ minCount = 5
    /\ Len(UncutView) >= 1
    /\ Len(UncutView) < Len(actions)

\* g constrains at least as much as f: each filter of f is in force in g,
\* with its value or a stronger one
Tightens(f, g) ==
    /\ f.fHost = <<>> \/ g.fHost = f.fHost
    /\ f.fMethod = <<>> \/ g.fMethod = f.fMethod
    /\ f.fMime = <<>> \/ g.fMime = f.fMime
    /\ f.onlyHasBody => g.onlyHasBody
    /\ g.minCount >= f.minCount
    /\ g.minRisk >= f.minRisk
    /\ f.excludedTags \subseteq g.excludedTags
    /\ includes(g.qDebounced, f.qDebounced)

\* C17: with the action list and the sort fixed, a filter state that adds a
\* constraint never gives a longer view.
C17_TighterFilterNoLongerView ==
    [][(Tightens(View, View') /\ UNCHANGED <<actions, sortVars>>) =>
          Len(filteredActionsIn(View')) <= Len(filteredActions)]_vars

\* the highest count threshold is in force and the view is shorter than the
\* list but not empty
C17_RaisedThreshold ==
    /\ minCount = 9
    /\ filteredActions /= <<>>
    /\ Len(filteredActions) < Len(actions)

(***************************************************************************)
(* SpecSort: the sort.  From the state loadActions leaves (InitLoaded) the *)
(* user clicks the column headers and sets the host filter, the has-body   *)
(* filter and the tag exclusions.                                          *)
(***************************************************************************)
NextSort ==
    \/ \E col \in SortCols : toggleSort(col)
    \/ \E h \in hostOptions \cup {<<>>} : SetFHost(h)
    \/ SetOnlyHasBody
    \/ \E tag \in tagOptions : setShowTag(tag)

SpecSort == InitLoaded /\ [][NextSort]_vars

\* C16: an action with a tag in excludedTags is not in the view, whatever
\* its other tags, the other filters and the sort; an action without tags
\* is in the view whenever it satisfies the other filters.
C16_DenyWins ==
    \A i \in 1..Len(actions) :
        LET a == actions[i] IN
        /\ (\E n \in 1..Len(a.risk_tags) : a.risk_tags[n] \in excludedTags)
              => ~HasKey(filteredActions, a.key)
        /\ a.risk_tags = <<>>
              => (HasKey(filteredActions, a.key) <=> Satisfies(a, Trim(qDebounced)))

\* under an explicit sort, tag t is excluded: the action tagged t and w is
\* loaded and hidden, an action without tags is shown
C16_TaggedHiddenUntaggedShown ==
    /\ sortCol /= ""
    /\ excludedTags = {<<"t">>}
    /\ HasKey(actions, ActX.key)
    /\ ~HasKey(filteredActions, ActX.key)
    /\ HasKey(filteredActions, ActY.key)

\* the number a numeric field sorts as
AsNumber(x) == IF x = <<>> THEN 0 ELSE x[1]

\* the elements of view do not increase on key from one to the next
NonIncreasing(view, key(_)) ==
    \A i \in 1..(Len(view) - 1) : key(view[i]) >= key(view[i + 1])

RiskOf(a) == AsNumber(a.risk_score)
CountOf(a) == AsNumber(a.count)

\* C18: with no sort column chosen the view is ordered by risk_score
\* descending if some loaded action has a risk score and by count
\* descending otherwise, whatever the filters and the stored direction.
C18_DefaultSort ==
    sortCol = "" =>
        /\ IF \E i \in 1..Len(actions) : actions[i].risk_score /= <<>>
           THEN NonIncreasing(filteredActions, RiskOf)
           ELSE NonIncreasing(filteredActions, CountOf)
        /\ \A d \in {"asc", "desc"} :
              filteredActionsOf(actions, View, "", d) = filteredActions

\* no column chosen, some loaded action has a risk score, and a filter in
\* force leaves two or more rows
C18_DefaultOverFilteredRows ==
    /\ sortCol = ""
    /\ hasRisk(actions)
    /\ fHost /= <<>>
    /\ Len(filteredActions) >= 2

\* the action list in another order
Reordered(list, f) == [i \in 1..Len(list) |-> list[f[i]]]

\* C19: the view is the same sequence for every order of the same loaded
\* actions under the same filter and sort.
C19_ViewIndependentOfInputOrder ==
    \A f \in Permutations(1..Len(actions)) :
        filteredActionsOf(Reordered(actions, f), View, sortCol, sortDir)
            = filteredActions

\* the sign of the primary comparison of a and b on col: negative if a sorts
\* lower, zero if they tie
PrimaryOrder(a, b, col) ==
    CASE col = "risk" -> AsNumber(a.risk_score) - AsNumber(b.risk_score)
      [] col = "count" -> AsNumber(a.count) - AsNumber(b.count)
      [] col = "time" -> AsNumber(a.avg_time_ms) - AsNumber(b.avg_time_ms)
      [] col = "bytes" -> AsNumber(a.avg_resp_bytes) - AsNumber(b.avg_resp_bytes)
      [] col = "body" -> (IF a.has_body THEN 1 ELSE 0) - (IF b.has_body THEN 1 ELSE 0)
      [] col = "method" -> localeCompare(toLowerCase(a.method), toLowerCase(b.method))
      [] col = "host" -> localeCompare(toLowerCase(a.host), toLowerCase(b.host))
      [] col = "path" ->
            localeCompare(toLowerCase(a.path_template), toLowerCase(b.path_template))
      [] col = "mime" -> localeCompare(toLowerCase(a.top_mime), toLowerCase(b.top_mime))

\* C20: under an explicit sort column neighbours of the view follow the
\* direction on the primary key; neighbours equal on it are ordered by count
\* descending and then avg_time_ms descending, in both directions.
C20_ExplicitSort ==
    sortCol /= "" =>
        \A i \in 1..(Len(filteredActions) - 1) :
            LET a == filteredActions[i]
                b == filteredActions[i + 1]
                p == PrimaryOrder(a, b, sortCol)
            IN  /\ sortDir = "desc" => p >= 0
                /\ sortDir = "asc" => p <= 0
                /\ p = 0 => AsNumber(a.count) >= AsNumber(b.count)
                /\ (p = 0 /\ AsNumber(a.count) = AsNumber(b.count))
                      => AsNumber(a.avg_time_ms) >= AsNumber(b.avg_time_ms)

\* sorted by host ascending, two neighbours with hosts equal but for case
\* stand in descending order of count
C20_TieUnderAscending ==
    /\ sortCol = "host"
    /\ sortDir = "asc"
    /\ \E i \in 1..(Len(filteredActions) - 1) :
          /\ toLowerCase(filteredActions[i].host) = toLowerCase(filteredActions[i + 1].host)
          /\ filteredActions[i].host /= filteredActions[i + 1].host
          /\ AsNumber(filteredActions[i].count) > AsNumber(filteredActions[i + 1].count)

(***************************************************************************)
(* Truncation and the count shown.  No list of the model has more rows     *)
(* than ViewCap, so the cut of line 649 is checked with smaller caps: the  *)
(* view function takes the cap as a parameter.                             *)
(***************************************************************************)
\* the caps tried
Caps == 1..MaxActions

\* the view the code computes with the cap c
ViewCut(c) == filteredActionsCut(actions, View, sortCol, sortDir, c)

\* the smaller of two numbers
Min(a, b) == IF a < b THEN a ELSE b

\* C21: the view is the first min(n, cap) elements of the filtered and sorted
\* list of n elements, in their order, and never longer than the cap; checked
\* for the cap of the program and for every smaller cap of Caps.
C21_ViewIsPrefixOfSorted ==
    \A c \in Caps \cup {ViewCap} :
        /\ Len(ViewCut(c)) = Min(Len(UncutView), c)
        /\ \A i \in 1..Len(ViewCut(c)) : ViewCut(c)[i] = UncutView[i]
        /\ c = ViewCap => ViewCut(c) = filteredActions

\* three actions match under an explicit sort that has reordered them: a
\* cap of two cuts the last one off
C21_MoreRowsThanCap ==
    /\ sortCol /= ""
    /\ Len(UncutView) = 3
    /\ Len(ViewCut(2)) = 2
    /\ UncutView /= actions

\* the count of the Actions header: "showing N / total" (line 1531)
showing(view) == Len(view)

\* C22: the count shown is the number of actions that pass the filter before
\* the cut, also when more actions match than the cap keeps.
C22_ShowsCountBeforeCut ==
    \A c \in Caps \cup {ViewCap} : showing(ViewCut(c)) = Len(UncutView)

(***************************************************************************)
(* The facet options.                                                      *)
(***************************************************************************)
FacetFields == {"host", "method", "top_mime"}

\* C23: the host, method and MIME options are the non-empty values of the
\* field over the whole loaded list, each once, in ascending order; a step
\* that leaves the action list alone leaves them alone.
C23_FacetOptions ==
    /\ [](\A field \in FacetFields :
            LET opts == optionsOf(actions, field) IN
            /\ \A i, j \in 1..Len(opts) : i < j => unitCompare(opts[i], opts[j]) < 0
            /\ {opts[i] : i \in 1..Len(opts)}
                  = {v \in {actions[k][field] : k \in 1..Len(actions)} : v /= <<>>})
    /\ [][actions' = actions =>
             \A field \in FacetFields :
                 optionsOf(actions', field) = optionsOf(actions, field)]_vars

\* a host filter is in force under an explicit sort and hides rows; the
\* options still list both hosts, upper case first, and the one MIME type
\* although an action without one is loaded
C23_OptionsOverFilteredView ==
    /\ fHost /= <<>>
    /\ sortCol /= ""
    /\ Len(filteredActions) < Len(actions)
    /\ optionsOf(actions, "host") = << <<"B">>, <<"a">> >>
    /\ optionsOf(actions, "top_mime") = << <<"j">> >>

(***************************************************************************)
(* Stored preferences.  localStorage holds one text under LS_KEY; its      *)
(* content is modelled by the JavaScript value JSON.parse makes of it.     *)
(* A value is a record with its type t and, but for undefined and null,    *)
(* its content.  A state variable that holds a value of another type     *)
(* than text holds NotAString (a text field of the model that is a         *)
(* sequence of characters holds <<NotAString>>).                           *)
(***************************************************************************)
JsUndefined == [t |-> "undefined"]
JsNull == [t |-> "null"]
JsBool(b) == [t |-> "boolean", bool |-> b]
JsNum(n) == [t |-> "number", num |-> n]
\* a string held as a sequence of characters, and one held as a name
JsText(s) == [t |-> "string", text |-> s, empty |-> s = <<>>]
JsName(s) == [t |-> "string", name |-> s, empty |-> s = ""]
JsArr(a) == [t |-> "array", elems |-> a]
JsObj(o) == [t |-> "object", fields |-> o]

NotAString == "[not a string]"
NotANumber == "[not a number]"

\* what is stored: nothing, a text JSON.parse throws on, or the text of a value
RawAbsent == [raw |-> "absent"]
RawNotJson == [raw |-> "not JSON"]
RawJson(v) == [raw |-> "JSON", v |-> v]

\* the value as a condition
truthy(x) ==
    CASE x.t = "undefined" -> FALSE
      [] x.t = "null" -> FALSE
      [] x.t = "boolean" -> x.bool
      [] x.t = "number" -> x.num /= 0
      [] x.t = "string" -> ~x.empty
      [] OTHER -> TRUE

\* a || b
Or(a, b) == IF truthy(a) THEN a ELSE b

\* x.field for one of the preference fields: undefined on everything but an
\* object that has the field
get(x, field) ==
    IF x.t = "object" /\ field \in DOMAIN x.fields THEN x.fields[field]
    ELSE JsUndefined

\* saved (lines 194-197): raw ? safeJsonParse(raw) || {} : {}
saved(raw) ==
    IF raw.raw = "JSON" THEN Or(raw.v, JsObj(<<>>)) ELSE JsObj(<<>>)

\* a value in a state variable that holds a text as a sequence of characters
asText(x) == IF x.t = "string" THEN x.text ELSE <<NotAString>>
\* a value in a state variable that holds a text as a string
asName(x) == IF x.t = "string" THEN x.name ELSE NotAString
\* a value in a state variable that holds a number
asNumber(x) == IF x.t = "number" THEN x.num ELSE NotANumber

\* String(x) of an element of the stored excludedTags (line 251)
StringOf(x) == IF x.t = "string" THEN x.text ELSE <<NotAString>>

\* the initial excludedTags (lines 249-254), as the set of line 431
initialExcludedTags(raw) ==
    IF raw.t = "array" THEN {StringOf(raw.elems[i]) : i \in 1..Len(raw.elems)}
    ELSE IF raw.t = "object"
    THEN {k \in DOMAIN raw.fields :
             raw.fields[k].t = "boolean" /\ raw.fields[k].bool}
    ELSE {}

\* the initial cols (line 269): { ...defaultCols, ...(saved.cols || {}) }
initialCols(raw) ==
    LET c == Or(raw, JsObj(<<>>)) IN
    [k \in ColIds |->
        IF c.t = "object" /\ k \in DOMAIN c.fields THEN truthy(c.fields[k])
        ELSE TRUE]

\* the state the initialisers of lines 199-273 make of saved
loaded(s) ==
    [engineUrl |-> asName(Or(get(s, "engineUrl"), JsName(DEFAULT_ENGINE))),
     engineLastOkAt |-> asNumber(Or(get(s, "engineLastOkAt"), JsNum(0))),
     projectId |-> asName(Or(get(s, "projectId"), JsName(""))),
     selectedActionKey |-> asText(Or(get(s, "selectedActionKey"), JsText(<<>>))),
     focusMode |-> truthy(get(s, "focusMode")),
     autoLoadOnProjectSelect |->
        ~(get(s, "autoLoadOnProjectSelect").t = "boolean"
          /\ ~get(s, "autoLoadOnProjectSelect").bool),
     fHost |-> asText(Or(get(s, "fHost"), JsText(<<>>))),
     fMethod |-> asText(Or(get(s, "fMethod"), JsText(<<>>))),
     fMime |-> asText(Or(get(s, "fMime"), JsText(<<>>))),
     q |-> asText(Or(get(s, "q"), JsText(<<>>))),
     onlyHasBody |-> truthy(get(s, "onlyHasBody")),
     minCount |-> IF get(s, "minCount").t = "number" THEN get(s, "minCount").num ELSE 0,
     minRisk |-> IF get(s, "minRisk").t = "number" THEN get(s, "minRisk").num ELSE 0,
     excludedTags |-> initialExcludedTags(get(s, "excludedTags")),
     cols |-> initialCols(get(s, "cols")),
     sortCol |-> asName(Or(get(s, "sortCol"), JsName(""))),
     sortDir |-> asName(Or(get(s, "sortDir"), JsName("desc")))]

\* the state of App after construction with raw stored: no answer has arrived
Mounted(raw) ==
    LET l == loaded(saved(raw)) IN
    /\ engineOk = FALSE
    /\ projectId = l.projectId
    /\ busy = FALSE
    /\ busyActions = FALSE
    /\ autoLoadOnProjectSelect = l.autoLoadOnProjectSelect
    /\ projectCfg = NoCfg
    /\ setupComplete = TRUE
    /\ wizardOpen = FALSE
    /\ wizardErr = ErrNone
    /\ wizardSaving = FALSE
    /\ wizardDirty = FALSE
    /\ wizAllowText = <<>>
    /\ wizDenyText = <<>>
    /\ wizQps = <<"3">>
    /\ wizRoeText = <<"{", "}">>
    /\ projReqs = {}
    /\ cfgReqs = {}
    /\ tasks = {}
    /\ actions = <<>>
    /\ selectedActionKey = l.selectedActionKey
    /\ fHost = l.fHost
    /\ fMethod = l.fMethod
    /\ fMime = l.fMime
    /\ q = l.q
    /\ qDebounced = l.q
    /\ onlyHasBody = l.onlyHasBody
    /\ minCount = l.minCount
    /\ minRisk = l.minRisk
    /\ excludedTags = l.excludedTags
    /\ sortCol = l.sortCol
    /\ sortDir = l.sortDir
    /\ engineUrl = l.engineUrl
    /\ engineErr = ""
    /\ engineLastOkAt = l.engineLastOkAt
    /\ now = 0
    /\ polls = {}
    /\ cfgCancelled = {}
    /\ focusMode = l.focusMode
    /\ cols = l.cols

\* qDebounced.trim() (line 566) throws a TypeError on a value that is not a
\* string: the first computation of filteredActions throws
filteredActionsThrows(v) == v.qDebounced = <<NotAString>>

(***************************************************************************)
(* SpecStartup: App starts on any stored content of StoredContents.  While *)
(* rendering does not throw, the engine answers the health check, the      *)
(* project list and the project config, and the user types a search text.  *)
(***************************************************************************)
StoredObjects ==
    [q : {JsUndefined, JsText(<<"w">>), JsNum(5)},
     fHost : {JsUndefined, JsText(<<"a">>), JsNum(5)},
     minCount : {JsUndefined, JsNum(5), JsText(<<"5">>)},
     projectId : {JsUndefined, JsName("p1")},
     excludedTags : {JsUndefined, JsArr(<<JsText(<<"t">>), JsNum(5)>>), JsNull},
     sortDir : {JsUndefined, JsName("asc")}]

StoredContents ==
    {RawAbsent, RawNotJson, RawJson(JsNull), RawJson(JsNum(5)), RawJson(JsNum(0)),
     RawJson(JsBool(TRUE)), RawJson(JsArr(<<>>)), RawJson(JsText(<<"w">>)),
     RawJson(JsObj(<<>>))}
    \cup {RawJson(JsObj(o)) : o \in StoredObjects}

InitStartup == \E raw \in StoredContents : Mounted(raw)

\* the render of the state does not throw: App is on the page
Renders == ~filteredActionsThrows(View)

NextStartup ==
    \/ \E ok \in BOOLEAN : Renders /\ HealthResult(ok)
    \/ \E c \in BOOLEAN, ok \in BOOLEAN :
          Renders /\ ProjectsResponse(c, ok, <<"p1", "p2">>)
    \/ \E r \in Pids : Renders /\ ConfigSuccess(r, CfgComplete)
    \/ \E t \in {<<>>, <<"w">>} : Renders /\ SetQ(t)
    \/ Renders /\ DebounceFires

SpecStartup == InitStartup /\ [][NextStartup]_vars

\* a text field of the state holds a text
IsString(x) == x /= <<NotAString>>

\* C24: whatever is stored, App starts in a usable view state: the text
\* fields hold texts, the thresholds numbers, the excluded tags are texts,
\* and the first computation of the view does not throw.
C24_StartupUsable ==
    /\ ~filteredActionsThrows(View)
    /\ IsString(q) /\ IsString(fHost) /\ IsString(fMethod) /\ IsString(fMime)
    /\ IsString(selectedActionKey)
    /\ \A tag \in excludedTags : IsString(tag)
    /\ minCount \in Nat /\ minRisk \in Nat

(***************************************************************************)
(* The engine URL and the health poll (lines 801-828).  The effect runs at *)
(* every change of engineUrl: its cleanup sets the cancelled flag of the   *)
(* run that ends and clears its interval, and the new run calls tick() at  *)
(* once and every 1.5 s.  A poll is one GET /health in flight: the URL it  *)
(* was sent to, the cancelled flag of its run, and a number that tells     *)
(* polls of one run apart.                                                 *)
(***************************************************************************)
\* tick() sends GET /health to u (line 807)
StartPoll(ps, u) ==
    LET free == {n \in 1..MaxPolls : \A p \in ps : p.n /= n}
        first == CHOOSE n \in free : \A m \in free : n <= m
    IN  ps \cup {[url |-> u, cancelled |-> FALSE, n |-> first]}

\* the engine URL input (line 1367)
SetEngineUrl(u) ==
    /\ u /= engineUrl
    /\ Cardinality(polls) < MaxPolls
    /\ engineUrl' = u
    /\ polls' = StartPoll({[p EXCEPT !.cancelled = TRUE] : p \in polls}, u)
    /\ UNCHANGED <<gateVars, viewVars, cfgCancelled, engineErr, engineLastOkAt, now, focusMode, cols>>

\* the interval fires (line 823)
HealthTick ==
    /\ Cardinality(polls) < MaxPolls
    /\ polls' = StartPoll(polls, engineUrl)
    /\ UNCHANGED <<gateVars, viewVars, cfgCancelled, engineUrl, engineErr, engineLastOkAt, now,
                   focusMode, cols>>

\* what GET /health comes back with: {ok: true}, another body, or a failure
HealthOutcomes == {"ok", "not ok", "error"}

\* the health state set whether or not the run was cancelled
HealthAnswerApplied(p, outcome) ==
    /\ p \in polls
    /\ polls' = polls \ {p}
    /\ RunCoreEffects(outcome = "ok", projectId, autoLoadOnProjectSelect,
                      setupComplete, projectCfg, cfgReqs, projReqs, tasks,
                      actions, selectedActionKey)
    /\ engineErr' = IF outcome = "error" THEN "Failed to fetch" ELSE ""
    /\ engineLastOkAt' = IF outcome = "ok" THEN now ELSE engineLastOkAt
    /\ cfgCancelled' = cancelledAfter(outcome = "ok", projectId, cfgReqs)
    /\ UNCHANGED <<busy, busyActions, wizardVars, wizardFields, engineUrl, now,
                   focusMode, cols>>

\* the continuation of tick() after its await (lines 808-819)
HealthAnswer(p, outcome) ==
    /\ p \in polls
    /\ polls' = polls \ {p}
    /\ IF p.cancelled
       THEN UNCHANGED <<gateVars, viewVars, cfgCancelled, engineUrl, engineErr, engineLastOkAt, now,
                        focusMode, cols>>
       ELSE /\ RunCoreEffects(outcome = "ok", projectId, autoLoadOnProjectSelect,
                              setupComplete, projectCfg, cfgReqs, projReqs, tasks,
                              actions, selectedActionKey)
            /\ engineErr' = IF outcome = "error" THEN "Failed to fetch" ELSE ""
            /\ engineLastOkAt' = IF outcome = "ok" THEN now ELSE engineLastOkAt
            /\ cfgCancelled' = cancelledAfter(outcome = "ok", projectId, cfgReqs)
            /\ UNCHANGED <<busy, busyActions, wizardVars, wizardFields, engineUrl,
                           now, focusMode, cols>>

\* time passes
ClockTick ==
    /\ now < MaxClock
    /\ now' = now + 1
    /\ UNCHANGED <<gateVars, viewVars, cfgCancelled, engineUrl, engineErr, engineLastOkAt, polls,
                   focusMode, cols>>

\* the Focus mode checkbox (line 1421) and the f key (lines 740-745)
SetFocusMode ==
    /\ focusMode' = ~focusMode
    /\ UNCHANGED <<gateVars, viewVars, cfgCancelled, engineUrl, engineErr, engineLastOkAt, now,
                   polls, cols>>

\* a column checkbox: toggleCol (lines 1030-1032, 1632)
toggleCol(k) ==
    /\ setupComplete
    /\ cols' = [cols EXCEPT ![k] = ~cols[k]]
    /\ UNCHANGED <<gateVars, viewVars, cfgCancelled, engineUrl, engineErr, engineLastOkAt, now,
                   polls, focusMode>>

(***************************************************************************)
(* Saving the preferences.  The persist effect (lines 312-360) runs after  *)
(* every render in which one of the persisted fields has changed and       *)
(* writes JSON.stringify(payload): what is stored is always the payload of *)
(* the current state.                                                      *)
(***************************************************************************)
\* payload (lines 314-336) of the state st, the fields of the model
payloadOf(st) ==
    JsObj([engineUrl |-> JsName(st.engineUrl),
           engineLastOkAt |-> JsNum(st.engineLastOkAt),
           projectId |-> JsName(st.projectId),
           selectedActionKey |-> JsText(st.selectedActionKey),
           autoLoadOnProjectSelect |-> JsBool(st.autoLoadOnProjectSelect),
           focusMode |-> JsBool(st.focusMode),
           fHost |-> JsText(st.fHost),
           fMethod |-> JsText(st.fMethod),
           fMime |-> JsText(st.fMime),
           q |-> JsText(st.q),
           onlyHasBody |-> JsBool(st.onlyHasBody),
           minCount |-> JsNum(st.minCount),
           minRisk |-> JsNum(st.minRisk),
           sortCol |-> JsName(st.sortCol),
           sortDir |-> JsName(st.sortDir),
           cols |-> JsObj([k \in ColIds |-> JsBool(st.cols[k])]),
           excludedTags |->
               LET a == arraySort(st.excludedTags)
               IN  JsArr([i \in 1..Len(a) |-> JsText(a[i])])])

\* JSON.parse(JSON.stringify(x)): a field that is undefined is left out, an
\* element that is undefined becomes null
RECURSIVE parseStringified(_)
parseStringified(x) ==
    CASE x.t = "object" ->
            JsObj([k \in {f \in DOMAIN x.fields : x.fields[f].t /= "undefined"} |->
                      parseStringified(x.fields[k])])
      [] x.t = "array" ->
            JsArr([i \in 1..Len(x.elems) |->
                      IF x.elems[i].t = "undefined" THEN JsNull
                      ELSE parseStringified(x.elems[i])])
      [] OTHER -> x

\* the persisted fields of the current state
Persisted ==
    [engineUrl |-> engineUrl, engineLastOkAt |-> engineLastOkAt,
     projectId |-> projectId, selectedActionKey |-> selectedActionKey,
     focusMode |-> focusMode, autoLoadOnProjectSelect |-> autoLoadOnProjectSelect,
     fHost |-> fHost, fMethod |-> fMethod, fMime |-> fMime, q |-> q,
     onlyHasBody |-> onlyHasBody, minCount |-> minCount, minRisk |-> minRisk,
     excludedTags |-> excludedTags, cols |-> cols, sortCol |-> sortCol,
     sortDir |-> sortDir]

\* what localStorage holds after the persist effect
stored == RawJson(parseStringified(payloadOf(Persisted)))

(***************************************************************************)
(* SpecPrefs: the preferences.  Project p1 is set up, GET /actions has     *)
(* answered [x, y]; the user edits the engine URL, the focus flag, a       *)
(* column, filters and the sort, and resets the UI.                        *)
(***************************************************************************)
InitPrefs == InitLoaded /\ actions = <<ActX, ActY>>

\* what the user types into the engine URL input
EngineUrlTyped == {DEFAULT_ENGINE, "http://engine", ""}

NextPrefs ==
    \/ \E u \in EngineUrlTyped : SetEngineUrl(u)
    \/ \E p \in polls : HealthAnswer(p, "ok")
    \/ SetFocusMode
    \/ toggleCol("count")
    \/ \E h \in hostOptions \cup {<<>>} : SetFHost(h)
    \/ \E t \in {<<>>, <<"w">>} : SetQ(t)
    \/ DebounceFires
    \/ setShowTag(<<"t">>)
    \/ toggleSort("host")
    \/ resetUi

SpecPrefs == InitPrefs /\ [][NextPrefs]_vars

\* C25: in every state, loading what the persist effect has stored gives
\* the engine URL, project id, selected key, filters, sort, column
\* visibility and focus flag of the state.
C25_SaveLoadRoundTrip ==
    LET l == loaded(saved(stored)) IN
    /\ l.engineUrl = engineUrl
    /\ l.projectId = projectId
    /\ l.selectedActionKey = selectedActionKey
    /\ l.fHost = fHost /\ l.fMethod = fMethod /\ l.fMime = fMime /\ l.q = q
    /\ l.onlyHasBody = onlyHasBody /\ l.minCount = minCount /\ l.minRisk = minRisk
    /\ l.excludedTags = excludedTags
    /\ l.sortCol = sortCol /\ l.sortDir = sortDir
    /\ l.cols = cols
    /\ l.focusMode = focusMode

\* C26: once an action list is loaded, a host, method or MIME filter that is
\* set names a value of the corresponding options; a filter whose value is in
\* no action of the list no longer constrains the view.
C26_StaleFacetFilterHealed ==
    actions /= <<>> =>
        /\ fHost /= <<>> => fHost \in hostOptions
        /\ fMethod /= <<>> => fMethod \in methodOptions
        /\ fMime /= <<>> => fMime \in mimeOptions

(***************************************************************************)
(* SpecHealth: the health poll.  App has started with nothing stored and   *)
(* the first health check is in flight; the engine has no projects.  The   *)
(* interval fires, checks are answered, time passes and the user changes   *)
(* the engine URL.                                                         *)
(***************************************************************************)
InitHealth ==
    /\ engineOk = FALSE
    /\ projectId = NoProject
    /\ busy = FALSE
    /\ busyActions = FALSE
    /\ autoLoadOnProjectSelect = TRUE
    /\ projectCfg = NoCfg
    /\ setupComplete = TRUE
    /\ wizardOpen = FALSE
    /\ wizardErr = ErrNone
    /\ wizardSaving = FALSE
    /\ wizardDirty = FALSE
    /\ wizAllowText = <<>>
    /\ wizDenyText = <<>>
    /\ wizQps = <<"3">>
    /\ wizRoeText = <<"{", "}">>
    /\ projReqs = {}
    /\ cfgReqs = {}
    /\ tasks = {}
    /\ InitViewDefault
    /\ engineUrl = DEFAULT_ENGINE
    /\ engineErr = ""
    /\ engineLastOkAt = 0
    /\ now = 1
    /\ polls = StartPoll({}, DEFAULT_ENGINE)
    /\ cfgCancelled = {}
    /\ focusMode = FALSE
    /\ cols = defaultCols

NextHealth ==
    \/ \E u \in {DEFAULT_ENGINE, "http://engine"} : SetEngineUrl(u)
    \/ HealthTick
    \/ \E p \in polls, o \in HealthOutcomes : HealthAnswer(p, o)
    \/ ClockTick
    \/ \E c \in BOOLEAN, ok \in BOOLEAN : ProjectsResponse(c, ok, <<>>)

SpecHealth == InitHealth /\ [][NextHealth]_vars

\* the health state
healthVars == <<engineOk, engineErr, engineLastOkAt>>

\* C27 amended: the answer to a health check whose poll was cancelled
\* changes neither engineOk nor the error text nor the last-healthy time, and
\* every change of them is made by the answer to a check that was sent to
\* the current engine URL and is not cancelled.
C27_CancelledAnswerDiscarded ==
    [][/\ \A p \in polls, o \in HealthOutcomes :
             (p.cancelled /\ HealthAnswer(p, o)) => UNCHANGED healthVars
       /\ healthVars' /= healthVars =>
             \E p \in polls :
                 ~p.cancelled /\ p.url = engineUrl /\ polls' = polls \ {p}]_vars

\* a check sent to the URL left behind is still in flight, cancelled, while
\* the health state is ok
C27_CancelledPollInFlight ==
    /\ engineOk
    /\ \E p \in polls : p.cancelled /\ p.url /= engineUrl

\* C27 as stated, at a change of the engine URL: the health state shows only
\* checks against the current URL, so after the step engineOk is not true
\* from a check against the URL left behind.
C27_HealthOfCurrentUrlOnly == [][engineUrl' /= engineUrl => ~engineOk']_vars

(***************************************************************************)
(* SpecDebounce: the search box.  On the loaded list [x, y] the user types *)
(* search texts, sets two other filters and resets the UI; the timer of    *)
(* useDebouncedValue fires 160 ms after the last change of q unless q      *)
(* changes again, which weak fairness of DebounceFires states.             *)
(***************************************************************************)
NextDebounce ==
    \/ \E t \in SearchTyped : SetQ(t)
    \/ DebounceFires
    \/ \E h \in hostOptions \cup {<<>>} : SetFHost(h)
    \/ SetOnlyHasBody
    \/ resetUi

SpecDebounce == InitPrefs /\ [][NextDebounce]_vars /\ WF_vars(DebounceFires)

\* C28: the view is computed from the debounced text alone; the debounced
\* text changes only to the text last typed; and if from some time on the
\* text is not changed any more (typed or cleared by Reset UI), then from
\* some time on the debounced text is that text.
C28_TrailingEdgeDebounce ==
    /\ [](\A t \in SearchTyped : filteredActionsIn([View EXCEPT !.q = t]) = filteredActions)
    /\ [][qDebounced' /= qDebounced => (qDebounced' = q /\ q' = q)]_vars
    /\ <>[][q' = q]_vars => <>[](qDebounced = q)

\* a text has been typed over another that was never applied: the view
\* still shows every action
C28_TypedNotYetApplied ==
    /\ q = <<"B">>
    /\ qDebounced = <<>>
    /\ Len(filteredActions) = Len(actions)
    /\ Len(filteredActionsIn([View EXCEPT !.qDebounced = q])) < Len(actions)

(***************************************************************************)
(* SpecBusy: the operations gated by busy and wizardSaving (importHar,     *)
(* createDemoProject, wizardSave) side by side, each to its finally block. *)
(***************************************************************************)
NextBusy ==
    \/ \E ok \in BOOLEAN : HealthResult(ok)
    \/ \E c \in projReqs : ProjectsResponse(c, TRUE, <<"p1">>)
    \/ SelectProject("p1")
    \/ \E r \in cfgReqs : ConfigSuccess(r, CfgComplete)
    \/ OpenSettings
    \/ WizardSaveClick
    \/ \E t \in tasks : SavePatchFailure(t)
    \/ \E t \in SavesAtPatch : SavePatchSuccess(t, PatchAnswer(t.body, TRUE))
    \/ \E t \in tasks : SaveProjectsResponse(t)
    \/ ImportClick
    \/ \E t \in tasks, result \in {"ok", "422", "error"} : UploadResponse(t, result)
    \/ CreateDemoClick
    \/ \E t \in tasks, ok \in BOOLEAN : DemoPostResponse(t, ok)
    \/ \E t \in tasks : DemoProjectsFailure(t)
    \/ \E t \in tasks : DemoProjectsSuccess(t, <<"p1">>, "p1")
    \/ \E t \in tasks : SummaryFailure(t)
    \/ \E t \in tasks : SummarySuccess(t)
    \/ \E t \in tasks, ok \in BOOLEAN : ActionsResponse(t, ok, <<>>)

SpecBusy == Init /\ [][NextBusy]_vars

\* the async functions in flight that hold busy, and those that hold
\* wizardSaving
ImportsInFlight == {t \in tasks : t.kind \in {"import", "demo"}}
SavesInFlight == {t \in tasks : t.kind = "save"}

\* the disabled attributes of the Import HAR button (line 1459, a file being
\* chosen) and of the Finish setup button (line 1305)
importDisabled == ~engineOk \/ busy \/ projectId = NoProject \/ ~setupComplete
finishSetupDisabled == ~engineOk \/ wizardSaving

\* C29: at most one import or create-demo operation and at most one wizard
\* save are in flight; busy is set exactly while the first is pending and
\* wizardSaving exactly while the second is, so their buttons are disabled
\* from the click to the end of the operation and a new one starts only
\* from an enabled button; when the operation ends, with or without an
\* error, its flag is false again
C29_OneImportOneSaveInFlight ==
    /\ [](/\ Cardinality(ImportsInFlight) <= 1
          /\ Cardinality(SavesInFlight) <= 1
          /\ busy <=> ImportsInFlight /= {}
          /\ wizardSaving <=> SavesInFlight /= {}
          /\ busy => importDisabled
          /\ wizardSaving => finishSetupDisabled)
    /\ [][/\ (\E t \in tasks' \ tasks : t.kind = "import" /\ t.pc = "upload")
                => ~importDisabled
          /\ (\E t \in tasks' \ tasks : t.kind = "demo" /\ t.pc = "post") => ~busy
          /\ (\E t \in tasks' \ tasks : t.kind = "save" /\ t.pc = "patch")
                => ~finishSetupDisabled
          /\ (ImportsInFlight /= {} /\ ImportsInFlight' = {}) => ~busy'
          /\ (SavesInFlight /= {} /\ SavesInFlight' = {}) => ~wizardSaving']_vars

\* an import and a save are pending together, with nothing but the flags
\* keeping their buttons disabled
C29_ImportAndSavePending ==
    /\ engineOk /\ projectId /= NoProject /\ setupComplete /\ wizardOpen
    /\ \E t \in tasks : t.kind = "import"
    /\ \E t \in tasks : t.kind = "save"

\* C30: no request is sent a second time: when the answer to a request
\* arrives, its async function goes on to the next endpoint or ends with a
\* message, and never puts the same request to the same endpoint again (for
\* importHar: after the answer to POST /import/har there is no second POST
\* /import/har of the same click)
C30_NoClientRetry ==
    [][\A t \in tasks : t.pc = "upload" =>
           [t EXCEPT !.pc = "upload2"] \notin tasks' \ tasks]_vars

(***************************************************************************)
(* SpecSwitch: the project config effect (lines 846-878) with the requests *)
(* of its cancelled runs still in flight.  The user switches between two   *)
(* projects and no project, the engine goes up and down, and every config  *)
(* request is answered, those of cancelled runs included.  Auto-load is    *)
(* off.                                                                    *)
(***************************************************************************)
\* the result of a health check, the cancelled config request kept
HealthResultKeeping(ok) ==
    /\ RunEffectsKeeping(ok, projectId, autoLoadOnProjectSelect, setupComplete,
                         projectCfg, cfgReqs, projReqs, tasks, actions,
                         selectedActionKey)
    /\ UNCHANGED <<busy, busyActions, wizardVars, wizardFields>>

\* the project <select> (lines 1374-1387), the cancelled config request kept
SelectProjectKeeping(p) ==
    /\ engineOk
    /\ p /= projectId
    /\ RunEffectsKeeping(engineOk, p, autoLoadOnProjectSelect, setupComplete,
                         projectCfg, cfgReqs, projReqs, tasks, <<>>, NoKey)
    /\ UNCHANGED <<busy, busyActions, wizardVars, wizardFields>>

\* the answer to GET /projects (lines 833-842), the cancelled config request
\* kept
ProjectsResponseKeeping(c, ok, list) ==
    /\ c \in projReqs
    /\ LET pid2 == IF ok /\ c /\ list /= <<>> THEN list[1] ELSE projectId
       IN  RunEffectsKeeping(engineOk, pid2, autoLoadOnProjectSelect, setupComplete,
                             projectCfg, cfgReqs, projReqs \ {c}, tasks, actions,
                             selectedActionKey)
    /\ UNCHANGED <<busy, busyActions, wizardVars, wizardFields>>

\* a cancelled run's config answer applied as if the run were current
CancelledConfigSuccessApplied(r, cfg) ==
    /\ r \in cfgCancelled
    /\ cfgCancelled' = cfgCancelled \ {r}
    /\ RunCoreEffects(engineOk, projectId, autoLoadOnProjectSelect, cfg.setup_complete,
                      cfg, cfgReqs, projReqs, tasks, actions, selectedActionKey)
    /\ IF ~cfg.setup_complete
       THEN openWizardFromCfg(cfg, TRUE)
       ELSE UNCHANGED <<wizardFields, wizardOpen, wizardErr, wizardDirty>>
    /\ UNCHANGED <<busy, busyActions, wizardSaving, engineUrl, engineErr,
                   engineLastOkAt, now, polls, focusMode, cols>>

\* the config request of a cancelled run answers: line 858 returns
CancelledConfigSuccess(r, cfg) ==
    /\ r \in cfgCancelled
    /\ cfgCancelled' = cfgCancelled \ {r}
    /\ UNCHANGED <<gateVars, viewVars, engineUrl, engineErr, engineLastOkAt, now,
                   polls, focusMode, cols>>

\* a cancelled run's failure applied as if the run were current
CancelledConfigFailureApplied(r) ==
    /\ r \in cfgCancelled
    /\ cfgCancelled' = cfgCancelled \ {r}
    /\ RunCoreEffects(engineOk, projectId, autoLoadOnProjectSelect, FALSE,
                      NoCfg, cfgReqs, projReqs, tasks, actions, selectedActionKey)
    /\ wizardErr' = ErrFetchFailed
    /\ wizardOpen' = TRUE
    /\ UNCHANGED <<busy, busyActions, wizardSaving, wizardDirty, wizardFields,
                   engineUrl, engineErr, engineLastOkAt, now, polls, focusMode, cols>>

\* the config request of a cancelled run fails: line 866 returns
CancelledConfigFailure(r) ==
    /\ r \in cfgCancelled
    /\ cfgCancelled' = cfgCancelled \ {r}
    /\ UNCHANGED <<gateVars, viewVars, engineUrl, engineErr, engineLastOkAt, now,
                   polls, focusMode, cols>>

InitSwitch == Init /\ ~autoLoadOnProjectSelect

NextSwitch ==
    \/ \E ok \in BOOLEAN : HealthResultKeeping(ok)
    \/ \E c \in projReqs, ok \in BOOLEAN, list \in ProjectLists :
          ProjectsResponseKeeping(c, ok, list)
    \/ \E p \in Pids \cup {NoProject} : SelectProjectKeeping(p)
    \/ \E r \in cfgReqs, cfg \in Configs : ConfigSuccess(r, cfg)
    \/ \E r \in cfgReqs : ConfigFailure(r)
    \/ \E r \in cfgCancelled, cfg \in Configs : CancelledConfigSuccess(r, cfg)
    \/ \E r \in cfgCancelled : CancelledConfigFailure(r)
    \/ OpenSettings
    \/ CloseButton
    \/ \E t \in AllowTyped : EditAllow(t)

SpecSwitch == InitSwitch /\ [][NextSwitch]_vars

\* what the gate and the wizard show
gateShown ==
    <<projectCfg, setupComplete, wizardOpen, wizardErr, wizardDirty, wizardFields>>

\* C31: the step that leaves no project selected clears projectCfg, sets
\* setupComplete to true and sends no config request, so the gate is UNKNOWN;
\* the config request of the project left behind is cancelled, and when its
\* answer arrives with the gate UNKNOWN it changes neither the gate nor the
\* wizard
C31_DeselectResetsGate ==
    [][/\ (projectId /= NoProject /\ projectId' = NoProject) =>
             /\ projectCfg' = NoCfg
             /\ setupComplete'
             /\ cfgReqs' = {}
             /\ cfgReqs \subseteq cfgCancelled'
             /\ GateOf(engineOk', projectId', cfgReqs', setupComplete', projectCfg')
                    = "UNKNOWN"
       /\ (projectId = NoProject /\ cfgCancelled' /= cfgCancelled
              /\ projectId' = NoProject /\ engineOk' = engineOk) =>
             /\ UNCHANGED gateShown
             /\ Gate = "UNKNOWN"
             /\ GateOf(engineOk', projectId', cfgReqs', setupComplete', projectCfg')
                    = "UNKNOWN"]_vars

\* no project is selected, the gate is reset, and the config request of the
\* project left behind is still in flight
C31_DeselectedWithRequestInFlight ==
    /\ engineOk /\ projectId = NoProject
    /\ projectCfg = NoCfg /\ setupComplete
    /\ cfgReqs = {} /\ cfgCancelled /= {}

\* C35: a config request that is not cancelled was sent for the selected
\* project by the current run of the effect, with the engine healthy; the
\* answer to any other config request, success or failure, changes neither
\* setupComplete nor projectCfg nor the wizard's fields nor its open flag
C35_LateConfigAnswerNotApplied ==
    /\ [](/\ cfgReqs \subseteq {projectId}
          /\ cfgReqs /= {} => engineOk /\ projectId /= NoProject)
    /\ [][/\ \A r \in cfgCancelled :
                (CancelledConfigFailure(r) \/
                 \E cfg \in Configs : CancelledConfigSuccess(r, cfg))
                    => UNCHANGED <<setupComplete, projectCfg, wizardFields, wizardOpen>>
          /\ (cfgCancelled' /= cfgCancelled /\ cfgCancelled' \subseteq cfgCancelled)
                => UNCHANGED <<setupComplete, projectCfg, wizardFields, wizardOpen>>]_vars

\* project p2 is selected with its config loaded and the wizard closed while
\* the config request for p1 is still in flight
C35_LateAnswerForOtherProject ==
    /\ engineOk /\ projectId = "p2"
    /\ "p1" \in cfgCancelled
    /\ cfgReqs = {} /\ projectCfg = CfgComplete /\ ~wizardOpen

(***************************************************************************)
(* The tag panel: tagStats (lines 377-388) and tagOptions (lines 390-429)  *)
(* as functions of the action list.  A tag is the text String(t) of an     *)
(* entry of risk_tags.                                                     *)
(***************************************************************************)
\* the curated tags in their order, lines 391-414
preferredOrder ==
    <<
       <<"o", "u", "t", "_", "o", "f", "_", "s", "c", "o", "p", "e">>,
       <<"t", "h", "i", "r", "d", "_", "p", "a", "r", "t", "y">>,
       <<"d", "e", "n", "y", "l", "i", "s", "t", "e", "d", "_", "h", "o",
           "s", "t">>,
       <<"a", "s", "s", "e", "t", "_", "l", "i", "k", "e">>,
       <<"s", "c", "o", "p", "e", "_", "u", "n", "s", "e", "t">>,
       <<"a", "u", "t", "h", "z", "_", "b", "o", "u", "n", "d", "a", "r",
           "y">>,
       <<"w", "r", "i", "t", "e", "s">>,
       <<"d", "e", "s", "t", "r", "u", "c", "t", "i", "v", "e">>,
       <<"s", "e", "n", "s", "i", "t", "i", "v", "e", "_", "p", "a", "t",
           "h">>,
       <<"t", "o", "k", "e", "n", "_", "i", "n", "_", "p", "a", "t", "h">>,
       <<"i", "d", "_", "i", "n", "_", "p", "a", "t", "h">>,
       <<"i", "d", "_", "q", "u", "e", "r", "y">>,
       <<"r", "e", "d", "i", "r", "e", "c", "t", "_", "p", "a", "r", "a",
           "m">>,
       <<"f", "i", "l", "e", "_", "p", "a", "r", "a", "m">>,
       <<"q", "u", "e", "r", "y", "_", "i", "n", "j", "e", "c", "t", "i",
           "o", "n", "_", "p", "a", "r", "a", "m">>,
       <<"5", "x", "x", "_", "s", "e", "e", "n">>,
       <<"s", "l", "o", "w">>,
       <<"l", "a", "r", "g", "e", "_", "r", "e", "s", "p">>,
       <<"v", "e", "r", "y", "_", "l", "a", "r", "g", "e", "_", "r", "e",
           "s", "p">>,
       <<"a", "p", "i", "_", "l", "i", "k", "e">>,
       <<"m", "u", "l", "t", "i", "_", "s", "i", "g", "n", "a", "l">>,
       <<"h", "i", "g", "h", "_", "f", "r", "e", "q", "u", "e", "n", "c",
           "y">> >>

\* preferredOrder.includes(tag), line 425
isPreferred(tag) == \E i \in 1..Len(preferredOrder) : preferredOrder[i] = tag

\* the keys of tagStats in insertion order: every tag at its first
\* occurrence, going through the actions and through each one's risk_tags
RECURSIVE firstOccurrences(_, _)
firstOccurrences(ts, seen) ==
    IF ts = <<>> THEN <<>>
    ELSE IF Head(ts) \in seen THEN firstOccurrences(Tail(ts), seen)
    ELSE <<Head(ts)>> \o firstOccurrences(Tail(ts), seen \cup {Head(ts)})

RECURSIVE allTags(_)
allTags(acts) ==
    IF acts = <<>> THEN <<>> ELSE Head(acts).risk_tags \o allTags(Tail(acts))

\* tagStats, lines 377-388: m.set(key, (m.get(key) || 0) + 1) for every
\* entry of every risk_tags
tagStats(acts) ==
    LET ts == allTags(acts)
    IN  [t \in {ts[i] : i \in 1..Len(ts)} |->
            Cardinality({i \in 1..Len(ts) : ts[i] = t})]

\* the comparator of line 426: b.count - a.count || a.tag.localeCompare(b.tag)
tagCmp(a, b) ==
    IF b.count - a.count /= 0 THEN b.count - a.count
    ELSE localeCompare(a.tag, b.tag)

\* Array.prototype.sort with tagCmp, by insertion (stable)
RECURSIVE tagInsert(_, _)
tagInsert(sorted, x) ==
    IF sorted = <<>> THEN <<x>>
    ELSE IF tagCmp(x, Head(sorted)) < 0 THEN <<x>> \o sorted
    ELSE <<Head(sorted)>> \o tagInsert(Tail(sorted), x)

RECURSIVE tagSort(_)
tagSort(xs) ==
    IF xs = <<>> THEN <<>>
    ELSE tagInsert(tagSort(SubSeq(xs, 1, Len(xs) - 1)), xs[Len(xs)])

\* .filter on a list of {tag, count}: the entries whose tag is in keep
RECURSIVE selectTags(_, _)
selectTags(xs, keep) ==
    IF xs = <<>> THEN <<>>
    ELSE IF Head(xs).tag \in keep THEN <<Head(xs)>> \o selectTags(Tail(xs), keep)
    ELSE selectTags(Tail(xs), keep)

\* the remaining tags left in the order tagStats holds them
tagOptionsUnsorted(acts) ==
    LET stats == tagStats(acts)
        keys == firstOccurrences(allTags(acts), {})
        all == [i \in 1..Len(keys) |-> [tag |-> keys[i], count |-> stats[keys[i]]]]
        has == DOMAIN stats
        notPreferred == {t \in DOMAIN stats : ~isPreferred(t)}
        ordered == selectTags([i \in 1..Len(preferredOrder) |->
                                  [tag |-> preferredOrder[i],
                                   count |-> IF preferredOrder[i] \in has
                                             THEN stats[preferredOrder[i]] ELSE 0]],
                              has)
    IN  ordered \o selectTags(all, notPreferred)

\* tagOptions, lines 390-429, for the list acts: {tag, count} records
tagOptionsOf(acts) ==
    LET stats == tagStats(acts)
        keys == firstOccurrences(allTags(acts), {})
        all == [i \in 1..Len(keys) |-> [tag |-> keys[i], count |-> stats[keys[i]]]]
        has == DOMAIN stats
        notPreferred == {t \in DOMAIN stats : ~isPreferred(t)}
        ordered == selectTags([i \in 1..Len(preferredOrder) |->
                                  [tag |-> preferredOrder[i],
                                   count |-> IF preferredOrder[i] \in has
                                             THEN stats[preferredOrder[i]] ELSE 0]],
                              has)
        remaining == tagSort(selectTags(all, notPreferred))
    IN  ordered \o remaining

(***************************************************************************)
(* SpecTags: the tag panel.  Project p1 is set up and GET /actions has     *)
(* answered with a list of TagLists, whose actions carry curated and other *)
(* tags, each tag at most once in an action; the list is loaded again, and *)
(* tags and a host are filtered.                                           *)
(***************************************************************************)
TagSlow == <<"s", "l", "o", "w">>
TagWrites == <<"w", "r", "i", "t", "e", "s">>

TagActs ==
    {[ActX EXCEPT !.risk_tags = <<TagSlow, <<"t">>, <<"w">> >>],
     [ActY EXCEPT !.risk_tags = << <<"w">>, TagWrites>>],
     [ActZ EXCEPT !.risk_tags = << <<"b">>, <<"t">> >>],
     [ActW EXCEPT !.risk_tags = << <<"a">> >>]}

TagLists == ActionListsOf(TagActs, MaxActions)

InitTags ==
    /\ engineOk = TRUE
    /\ projectId = "p1"
    /\ busy = FALSE
    /\ busyActions = FALSE
    /\ autoLoadOnProjectSelect = FALSE
    /\ projectCfg = CfgComplete
    /\ setupComplete = TRUE
    /\ wizardOpen = FALSE
    /\ wizardErr = ErrNone
    /\ wizardSaving = FALSE
    /\ wizardDirty = FALSE
    /\ wizAllowText = <<>>
    /\ wizDenyText = <<>>
    /\ wizQps = <<"3">>
    /\ wizRoeText = <<"{", "}">>
    /\ projReqs = {}
    /\ cfgReqs = {}
    /\ tasks = {}
    /\ actions \in TagLists
    /\ selectedActionKey = FirstKey(actions)
    /\ fHost = <<>>
    /\ fMethod = <<>>
    /\ fMime = <<>>
    /\ q = <<>>
    /\ qDebounced = <<>>
    /\ onlyHasBody = FALSE
    /\ minCount = 0
    /\ minRisk = 0
    /\ excludedTags = {}
    /\ sortCol = ""
    /\ sortDir = "desc"
    /\ InitShellDefault

NextTags ==
    \/ LoadActionsClick
    \/ \E t \in tasks, list \in TagLists : ActionsResponse(t, TRUE, list)
    \/ \E tag \in tagOptions \cap {<<"t">>, TagSlow} : setShowTag(tag)
    \/ \E h \in hostOptions \cup {<<>>} : SetFHost(h)

SpecTags == InitTags /\ [][NextTags]_vars

\* the actions of the loaded list that carry tag
Carrying(tag) ==
    {i \in 1..Len(actions) :
        \E j \in 1..Len(actions[i].risk_tags) : actions[i].risk_tags[j] = tag}

\* the number of curated tags at the head of a tag list
CuratedHead(opts) ==
    Cardinality({i \in 1..Len(opts) : isPreferred(opts[i].tag)})

\* C32: tagStats gives every tag of the loaded list, whatever the filters,
\* the number of actions that carry it; tagOptions holds every tag of
\* tagStats exactly once with that count: first the curated tags that occur,
\* in the order of the curated list, then the other tags by descending count
\* and, for equal counts, alphabetically
C32_TagStatsAndOptions ==
    LET stats == tagStats(actions)
        opts == tagOptionsOf(actions)
        n == CuratedHead(opts)
        place(t) == CHOOSE i \in 1..Len(preferredOrder) : preferredOrder[i] = t
    IN  /\ DOMAIN stats = {t \in tagOptions : Carrying(t) /= {}}
        /\ DOMAIN stats = tagOptions
        /\ \A t \in DOMAIN stats : stats[t] = Cardinality(Carrying(t))
        /\ {opts[i].tag : i \in 1..Len(opts)} = DOMAIN stats
        /\ \A i, j \in 1..Len(opts) : opts[i].tag = opts[j].tag => i = j
        /\ \A i \in 1..Len(opts) : opts[i].count = stats[opts[i].tag]
        /\ \A i \in 1..Len(opts) : isPreferred(opts[i].tag) <=> i <= n
        /\ \A i, j \in 1..n : i < j => place(opts[i].tag) < place(opts[j].tag)
        /\ \A i, j \in (n + 1)..Len(opts) :
              i < j => \/ opts[i].count > opts[j].count
                       \/ /\ opts[i].count = opts[j].count
                          /\ localeCompare(opts[i].tag, opts[j].tag) < 0

\* two curated tags were met in the reverse of their curated order, two
\* other tags with equal counts in the reverse of the alphabet, a tag is hidden
C32_TagsOutOfOrderInList ==
    /\ Len(actions) = 3
    /\ Head(actions[1].risk_tags) = TagSlow
    /\ actions[2].risk_tags = << <<"w">>, TagWrites>>
    /\ actions[3].risk_tags = << <<"a">> >>
    /\ excludedTags /= {}
    /\ Len(filteredActions) < Len(actions)

(***************************************************************************)
(* SpecStale: action lists of two projects.  The engine answers GET        *)
(* /actions for a project with that project's list; the user selects       *)
(* projects, loads, sorts and filters while answers are in flight.         *)
(***************************************************************************)
\* the actions the engine holds for a project
ActionsOfProject(pid) == IF pid = "p1" THEN <<ActX, ActZ>> ELSE <<ActY>>

NextStale ==
    \/ \E p \in Pids : SelectProject(p)
    \/ \E r \in cfgReqs : ConfigSuccess(r, CfgComplete)
    \/ LoadActionsClick
    \/ \E t \in tasks : ActionsResponse(t, TRUE, ActionsOfProject(t.pid))
    \/ \E t \in tasks : ActionsResponse(t, FALSE, <<>>)
    \/ \E h \in hostOptions \cup {<<>>} : SetFHost(h)
    \/ toggleSort("count")

SpecStale == InitSelect /\ [][NextStale]_vars

\* C33: the loaded action list is empty or the list of the selected project;
\* the answer to a request made for a project selected before is not applied
C33_ListOfSelectedProject ==
    actions \in {<<>>, ActionsOfProject(projectId)}

\* C34: in a settled state (no async function in flight) with a project
\* selected, the engine healthy and the gate INCOMPLETE or FETCH_FAILED, the
\* wizard is open
C34_IncompleteMeansWizardOpen ==
    (/\ tasks = {}
     /\ engineOk /\ projectId /= NoProject
     /\ Gate \in {"INCOMPLETE", "FETCH_FAILED"}) => wizardOpen

\* C36: busyActions is true in every state in which a GET /actions sent by
\* loadActions is in flight, whoever called loadActions
C36_BusyWhileLoadInFlight ==
    (\E t \in tasks : t.pc = "actions") => busyActions

\* C37: a step that puts a "Save failed" text into wizardErr is the failure
\* of the PATCH of a wizardSave; after the PATCH has succeeded, no failure of
\* the requests that follow it shows a failed save
C37_SaveFailedOnlyFromPatch ==
    [][(wizardErr' /= wizardErr
           /\ wizardErr' \in {ErrSaveFailedPatch, ErrSaveFailedSummary})
          => \E t \in SavesAtPatch : tasks' = tasks \ {t}]_vars

\* C38: when GET /actions fails, the action list, the selection, the sort
\* column and direction, the filters and the gate stay as they are, and
\* busyActions is false
C38_FailedLoadChangesNothing ==
    [][\A t \in tasks :
         ActionsResponse(t, FALSE, <<>>) =>
           /\ UNCHANGED <<actions, selectedActionKey, sortVars, filterVars>>
           /\ filteredActionsIn(View') = filteredActions
           /\ UNCHANGED <<setupComplete, projectCfg, projectId, engineOk, wizardOpen>>
           /\ GateOf(engineOk', projectId', cfgReqs', setupComplete', projectCfg') = Gate
           /\ ~busyActions']_vars

\* a reload is in flight over a loaded list that is sorted by a clicked
\* column and filtered by host, with a selection that is not the first row
C38_ReloadOverSortedFilteredList ==
    /\ \E t \in tasks : t.pc = "actions"
    /\ busyActions
    /\ Len(actions) > 1 /\ sortCol /= "" /\ fHost /= <<>>
    /\ selectedActionKey /= NoKey

(***************************************************************************)
(* SpecCycle: the header clicks.  The list of two actions is loaded; the   *)
(* user clicks the headers of all sortable columns and filters by host and *)
(* body.                                                                   *)
(***************************************************************************)
NextCycle ==
    \/ \E col \in SortCols : toggleSort(col)
    \/ \E h \in hostOptions \cup {<<>>} : SetFHost(h)
    \/ SetOnlyHasBody

SpecCycle == InitPrefs /\ [][NextCycle]_vars

\* the explicit sort state
sortState == [col |-> sortCol, dir |-> sortDir]
NoSort == [col |-> "", dir |-> "desc"]

\* the sort state after three clicks on the header col
RECURSIVE clicks(_, _, _)
clicks(s, col, n) ==
    IF n = 0 THEN s ELSE clicks(sortAfterToggle(s.col, s.dir, col), col, n - 1)

\* C39 amended: a click on a header that is not the explicit sort column
\* sets (that column, desc); a click on the explicit column sets asc when it
\* is desc and (none, desc) when it is asc.  The sort state is always (none,
\* desc) or (column, desc or asc) for a sortable column.  Three clicks on a
\* header that is not the explicit sort column end in (none, desc); three
\* clicks on the explicit sort column's header end in the state they began
\* in.
C39_SortCycle ==
    /\ [](/\ sortCol \in SortCols \cup {""}
          /\ sortDir \in {"desc", "asc"}
          /\ sortCol = "" => sortDir = "desc"
          /\ \A col \in SortCols :
                clicks(sortState, col, 3) = IF col = sortCol THEN sortState ELSE NoSort)
    /\ [][\A col \in SortCols :
            toggleSort(col) =>
              /\ sortCol /= col => sortCol' = col /\ sortDir' = "desc"
              /\ (sortCol = col /\ sortDir = "desc") =>
                    sortCol' = col /\ sortDir' = "asc"
              /\ (sortCol = col /\ sortDir = "asc") =>
                    sortCol' = "" /\ sortDir' = "desc"]_vars

\* a column is the explicit sort column, ascending, over two rows or more
C39_ExplicitAscending ==
    /\ sortCol = "host" /\ sortDir = "asc" /\ Len(filteredActions) > 1

\* C39 as stated: three clicks on one header end in the default sort from
\* any state
C39_ThreeClicksEndInDefault ==
    \A col \in SortCols : clicks(sortState, col, 3) = NoSort

\* the wizard's flags after a load, whatever is stored: useState(false),
\* lines 281 and 284
loadedWizard(s) == [wizardOpen |-> FALSE, wizardDirty |-> FALSE]

\* C40: loading what the persist effect has stored gives the wizard's open
\* and dirty flags of the state
C40_WizardFlagsRestored ==
    LET w == loadedWizard(saved(stored)) IN
    /\ w.wizardOpen = wizardOpen
    /\ w.wizardDirty = wizardDirty

====
